---- MODULE Spec2Model ----
(***************************************************************************)
(* A model of the chronic-disease prediction repository:                   *)
(*   - the HTTP prediction service (ML_Models/ml_backend/main.py): routes, *)
(*     MODEL_CONFIGS, the artifact loader with its cache, the per-disease  *)
(*     preprocessing branches and the two classifier calls;                *)
(*   - the artifact files the disease scripts persist with joblib.dump;    *)
(*   - the interactive feedback/retraining loops of the disease scripts.   *)
(* Fitted objects (imputer, encoder, scaler, classifier) are third-party   *)
(* library objects; they are modelled by what their transform/predict      *)
(* calls do on one row.  Numbers are integers (tenths where the source has *)
(* probabilities).                                                         *)
(***************************************************************************)
EXTENDS Integers, Sequences, FiniteSets, TLC

(***************************************************************************)
(* Bounds of the model.                                                    *)
(***************************************************************************)
\* number of script runs (module-level training + dump) in one behaviour
MaxRuns == 2
\* number of distinct training data sets a script run may be fitted on
MaxGen == 2

\* rows a session may add to the feedback CSV
MaxFeedback == 2

(***************************************************************************)
(* JSON / DataFrame cell values: a number, a string, a boolean or null.    *)
(***************************************************************************)
Num(n) == [t |-> "num", n |-> n, s |-> ""]
Str(s) == [t |-> "str", n |-> 0, s |-> s]
Bool(b) == [t |-> "bool", n |-> IF b THEN 1 ELSE 0, s |-> ""]
Null == [t |-> "null", n |-> 0, s |-> ""]

IsNum(v) == v.t = "num"
IsStr(v) == v.t = "str"
IsNull(v) == v.t = "null"

(***************************************************************************)
(* A dict / one-row DataFrame: a sequence of (key, value) cells in         *)
(* insertion (column) order.                                               *)
(***************************************************************************)
Cell(k, v) == [k |-> k, v |-> v]

Keys(row) == [i \in 1..Len(row) |-> row[i].k]

Has(row, k) == \E i \in 1..Len(row) : row[i].k = k

Get(row, k) == row[CHOOSE i \in 1..Len(row) : row[i].k = k].v

\* df[col] = v : overwrite in place, or append a new column
SetCol(row, k, v) ==
    IF Has(row, k)
    THEN [i \in 1..Len(row) |-> IF row[i].k = k THEN Cell(k, v) ELSE row[i]]
    ELSE Append(row, Cell(k, v))

InSeq(x, seq) == \E i \in 1..Len(seq) : seq[i] = x

Range(seq) == {seq[i] : i \in 1..Len(seq)}

\* [c for c in cols if pred] : the sub-sequence of cols kept by a filter
RECURSIVE FilterSeq(_, _)
FilterSeq(seq, keep) ==
    IF seq = <<>> THEN <<>>
    ELSE IF Head(seq) \in keep
         THEN <<Head(seq)>> \o FilterSeq(Tail(seq), keep)
         ELSE FilterSeq(Tail(seq), keep)

(***************************************************************************)
(* MODEL_CONFIGS (main.py 38-113).  An absent config key is the empty      *)
(* string / empty list together with a has_* flag, since `"zero_cols" in   *)
(* config` and `config.get("zero_cols", [])` are both used by the code.    *)
(***************************************************************************)
ModelKeys ==
    <<"heart", "diabetes", "hypertension", "ckd", "asthma", "arthritis", "copd", "liver">>

MODEL_CONFIGS ==
    [ heart |->
        [ path |-> "../Heart disease ML",
          model_file |-> "xgb_heart_model.pkl",
          scaler_file |-> "scaler.pkl",
          encoders_file |-> "encoders.pkl",
          num_imputer_file |-> "num_imputer.pkl",
          cat_imputer_file |-> "cat_imputer.pkl",
          features |-> <<"age", "sex", "trestbps", "chol", "fbs", "thalch">>,
          has_categorical_cols |-> TRUE,
          categorical_cols |-> <<"sex", "fbs">>,
          has_zero_cols |-> FALSE,
          zero_cols |-> <<>> ],
      diabetes |->
        [ path |-> "../Diabetes disease ML",
          model_file |-> "ensemble_diabetes_model.pkl",
          scaler_file |-> "scaler_diabetes.pkl",
          encoders_file |-> "",
          num_imputer_file |-> "num_imputer_diabetes.pkl",
          cat_imputer_file |-> "",
          features |-> <<"Glucose", "BloodPressure", "SkinThickness", "Insulin", "BMI",
                         "DiabetesPedigreeFunction", "Age">>,
          has_categorical_cols |-> FALSE,
          categorical_cols |-> <<>>,
          has_zero_cols |-> TRUE,
          zero_cols |-> <<"Glucose", "BloodPressure", "SkinThickness", "Insulin", "BMI">> ],
      hypertension |->
        [ path |-> "../Hypertension ML",
          model_file |-> "xgb_hypertension_model.pkl",
          scaler_file |-> "scaler_hypertension.pkl",
          encoders_file |-> "encoders_hypertension.pkl",
          num_imputer_file |-> "num_imputer_hypertension.pkl",
          cat_imputer_file |-> "",
          features |-> <<"Systolic_BP", "Diastolic_BP", "Heart_Rate", "BMI", "Age", "Gender">>,
          has_categorical_cols |-> TRUE,
          categorical_cols |-> <<"Gender">>,
          has_zero_cols |-> TRUE,
          zero_cols |-> <<"Systolic_BP", "Diastolic_BP", "Heart_Rate", "BMI">> ],
      ckd |->
        [ path |-> "../Chronic Kidney disease(CKD) ML",
          model_file |-> "xgb_ckd_simple_model.pkl",
          scaler_file |-> "scaler_ckd_simple.pkl",
          encoders_file |-> "encoders_ckd_simple.pkl",
          num_imputer_file |-> "num_imputer_ckd_simple.pkl",
          cat_imputer_file |-> "",
          features |-> <<"age", "bp", "bgr", "bu", "sc", "hemo", "htn">>,
          has_categorical_cols |-> TRUE,
          categorical_cols |-> <<"htn">>,
          has_zero_cols |-> FALSE,
          zero_cols |-> <<>> ],
      asthma |->
        [ path |-> "../Asthma ML",
          model_file |-> "xgb_asthma_model.pkl",
          scaler_file |-> "scaler_asthma.pkl",
          encoders_file |-> "encoders_asthma.pkl",
          num_imputer_file |-> "num_imputer_asthma.pkl",
          cat_imputer_file |-> "",
          features |-> <<"Age", "Gender", "BMI", "Smoking", "Wheezing", "ShortnessOfBreath",
                         "Coughing", "ExerciseInduced">>,
          has_categorical_cols |-> TRUE,
          categorical_cols |-> <<"Gender", "Smoking", "Wheezing", "ShortnessOfBreath",
                                 "Coughing", "ExerciseInduced">>,
          has_zero_cols |-> FALSE,
          zero_cols |-> <<>> ],
      arthritis |->
        [ path |-> "../Arthritis_ML/data/data",
          model_file |-> "xgb_arthritis_highacc.pkl",
          scaler_file |-> "scaler_arthritis_highacc.pkl",
          encoders_file |-> "encoders_arthritis_highacc.pkl",
          num_imputer_file |-> "num_imputer_arthritis_highacc.pkl",
          cat_imputer_file |-> "",
          features |-> <<"Pain_Level", "Joint_Mobility", "Stiffness", "Swelling", "Age",
                         "Gender", "Pain_Stiffness", "Pain_Swelling", "Stiffness_Swelling">>,
          has_categorical_cols |-> TRUE,
          categorical_cols |-> <<"Gender">>,
          has_zero_cols |-> TRUE,
          zero_cols |-> <<"Pain_Level", "Joint_Mobility", "Stiffness", "Swelling">> ],
      copd |->
        [ path |-> "../COPD_ML/data",
          model_file |-> "xgb_copd_highacc.pkl",
          scaler_file |-> "scaler_copd_highacc.pkl",
          encoders_file |-> "encoders_copd_highacc.pkl",
          num_imputer_file |-> "num_imputer_copd_highacc.pkl",
          cat_imputer_file |-> "",
          features |-> <<"Age", "Oxygen_Level", "Oxygen_Low", "Cough_SOB", "Cough_Fatigue",
                         "Gender", "Smoking_History", "Cough", "Shortness_of_Breath",
                         "Fatigue">>,
          has_categorical_cols |-> TRUE,
          categorical_cols |-> <<"Gender", "Smoking_History", "Cough", "Shortness_of_Breath",
                                 "Fatigue">>,
          has_zero_cols |-> FALSE,
          zero_cols |-> <<>> ],
      liver |->
        [ path |-> "../Liver_ML/data/data",
          model_file |-> "xgb_liver.pkl",
          scaler_file |-> "scaler_liver.pkl",
          encoders_file |-> "encoders_liver.pkl",
          num_imputer_file |-> "num_imputer_liver.pkl",
          cat_imputer_file |-> "",
          features |-> <<"Age", "BMI", "ALT", "AST", "Bilirubin", "Fatigue", "Jaundice",
                         "Nausea", "Abdominal_Pain">>,
          has_categorical_cols |-> TRUE,
          categorical_cols |-> <<"Fatigue", "Jaundice", "Nausea", "Abdominal_Pain">>,
          has_zero_cols |-> FALSE,
          zero_cols |-> <<>> ] ]

\* `model_type in MODEL_CONFIGS`
Configured(model_type) == model_type \in DOMAIN MODEL_CONFIGS

(***************************************************************************)
(* Fitted library objects and pickled files.  A blob is what joblib.dump   *)
(* writes and joblib.load returns; `gen` names the data the object was     *)
(* fitted on, and the fitted parameters are kept explicitly:               *)
(*   num_imputer : cols, stats (the per-column medians)                    *)
(*   encoders    : cols, classes (per column, the sorted classes_)         *)
(*   scaler      : cols, stats (means), scale                              *)
(*   model       : n (n_features_in_), bias                                *)
(*   csv         : the raw training data file                              *)
(***************************************************************************)
Blob(kind, gen, cols, stats, scale, classes, n, bias) ==
    [kind |-> kind, gen |-> gen, cols |-> cols, stats |-> stats, scale |-> scale,
     classes |-> classes, n |-> n, bias |-> bias]

\* a path that does not exist / a key absent from the artifacts dict
NoFile == Blob("none", 0, <<>>, <<>>, <<>>, <<>>, 0, 0)

Present(b) == b.kind # "none"

ArtifactKinds == <<"model", "scaler", "encoders", "num_imputer", "cat_imputer">>

\* artifacts = {} (main.py 173)
EmptyArtifacts ==
    [model |-> NoFile, scaler |-> NoFile, encoders |-> NoFile, num_imputer |-> NoFile,
     cat_imputer |-> NoFile]

(***************************************************************************)
(* SimpleImputer(strategy='median').transform on the selected columns: the *)
(* default missing_values is NaN, so only a null cell is replaced by the   *)
(* fitted median; every other number passes through.  The columns must be  *)
(* the ones seen at fit, and a string cell cannot be converted.            *)
(***************************************************************************)
ImputeCell(imp, j, v) == IF IsNull(v) THEN Num(imp.stats[j]) ELSE Num(v.n)

ImputerTransform(imp, cols, row) ==
    IF cols # imp.cols
    THEN [err |-> "ValueError: feature names should match those passed during fit",
          row |-> row]
    ELSE IF \E j \in 1..Len(cols) : IsStr(Get(row, cols[j]))
    THEN [err |-> "ValueError: could not convert string to float", row |-> row]
    ELSE [err |-> "",
          row |-> [i \in 1..Len(row) |->
                     IF InSeq(row[i].k, cols)
                     THEN Cell(row[i].k,
                               ImputeCell(imp, CHOOSE j \in 1..Len(cols) : cols[j] = row[i].k,
                                          row[i].v))
                     ELSE row[i]]]

(***************************************************************************)
(* LabelEncoder.transform on one cell: the 0-based position of the value   *)
(* in classes_, or ValueError "y contains previously unseen labels".       *)
(***************************************************************************)
UnseenMsg == "ValueError: y contains previously unseen labels"

EncoderClasses(enc, col) == enc.classes[CHOOSE j \in 1..Len(enc.cols) : enc.cols[j] = col]

\* Python equality of a cell and a class: 0 == False and 1 == True
IntLike(v) == v.t \in {"num", "bool"}

PyEq(a, b) == IF IntLike(a) /\ IntLike(b) THEN a.n = b.n ELSE a = b

Seen(classes, v) == \E c \in 1..Len(classes) : PyEq(classes[c], v)

EncoderTransform(classes, v) ==
    IF Seen(classes, v)
    THEN [err |-> "", v |-> Num((CHOOSE c \in 1..Len(classes) : PyEq(classes[c], v)) - 1)]
    ELSE [err |-> UnseenMsg, v |-> v]

(***************************************************************************)
(* StandardScaler.transform on the row in the given column order: the      *)
(* columns must be those seen at fit, in fit order; every cell must be     *)
(* numeric; the result is (x - mean) / scale per column.  obj is the       *)
(* scaler object after the call: transform leaves it as fitted.            *)
(***************************************************************************)
\* scaler.fit_transform in place of scaler.transform: the scaler is fitted
\* again on the row it is given
ScalerTransform_Refit(sc, row) ==
    IF \E j \in 1..Len(row) : ~IsNum(row[j].v)
    THEN [err |-> "ValueError: could not convert string to float", vec |-> <<>>, obj |-> sc]
    ELSE [err |-> "", vec |-> [j \in 1..Len(row) |-> 0],
          obj |-> [sc EXCEPT !.cols = Keys(row),
                             !.stats = [j \in 1..Len(row) |-> row[j].v.n],
                             !.scale = [j \in 1..Len(row) |-> 1]]]

ScaleCell(sc, j, v) == (v.n - sc.stats[j]) \div sc.scale[j]

ScalerTransform(sc, row) ==
    IF Keys(row) # sc.cols
    THEN [err |-> "ValueError: feature names should match those passed during fit",
          vec |-> <<>>, obj |-> sc]
    ELSE IF \E j \in 1..Len(row) : IsStr(row[j].v)
    THEN [err |-> "ValueError: could not convert string to float", vec |-> <<>>, obj |-> sc]
    ELSE [err |-> "", vec |-> [j \in 1..Len(row) |-> ScaleCell(sc, j, row[j].v)],
          obj |-> sc]

\* df.values when there is no scaler (main.py 359, 383, 420)
RawValues(row) == [err |-> "", vec |-> [j \in 1..Len(row) |-> row[j].v.n], obj |-> NoFile]

(***************************************************************************)
(* The classifier.  predict_proba(x)[0][1] is a probability in tenths,     *)
(* 0..10, a fixed function of the fitted model and the vector;             *)
(* predict(x)[0] is the library's hard label, the arg-max class, which is  *)
(* class 1 only when the positive probability exceeds one half.            *)
(***************************************************************************)
HalfUnits == 5
ProbScale == 2 * HalfUnits
Half == HalfUnits

RECURSIVE SumSeq(_)
SumSeq(seq) == IF seq = <<>> THEN 0 ELSE Head(seq) + SumSeq(Tail(seq))

predict_proba(model, vec) == (model.bias + SumSeq(vec)) % (ProbScale + 1)

predict(model, vec) == IF predict_proba(model, vec) > Half THEN 1 ELSE 0

\* the classifier checks the width of its input
ModelAccepts(model, vec) == Len(vec) = model.n


(***************************************************************************)
(* What each disease script fits at module level and where it dumps it.    *)
(* The scripts that use bare file names write into their working           *)
(* directory, taken to be the disease folder the service configuration     *)
(* names; arthritis and liver build DATA_FOLDER = SCRIPT_DIR/data, and     *)
(* COPD builds COPD_ML/data under its working directory.                   *)
(***************************************************************************)
Join(dir, file) == dir \o "/" \o file

GenderClasses == <<Str("Female"), Str("Male")>>
SeverityClasses == <<Str("Mild"), Str("None"), Str("Severe")>>
SmokingClasses == <<Str("Current"), Str("Former"), Str("Never")>>
DigitClasses == <<Str("0"), Str("1")>>

SCRIPTS ==
    [ heart |->
        [ dir |-> "../Heart disease ML", csv |-> "heart.csv",
          model_file |-> "xgb_heart_model.pkl", scaler_file |-> "scaler.pkl",
          encoders_file |-> "encoders.pkl", num_imputer_file |-> "num_imputer.pkl",
          cat_imputer_file |-> "cat_imputer.pkl",
          features |-> <<"age", "sex", "trestbps", "chol", "fbs", "thalch">>,
          imputer_cols |-> <<"age", "trestbps", "chol", "thalch">>,
          enc_cols |-> <<"sex", "fbs">>,
          enc_classes |-> <<GenderClasses, <<Bool(FALSE), Bool(TRUE)>> >> ],
      diabetes |->
        [ dir |-> "../Diabetes disease ML", csv |-> "diabetes.csv",
          model_file |-> "ensemble_diabetes_model.pkl", scaler_file |-> "scaler_diabetes.pkl",
          encoders_file |-> "", num_imputer_file |-> "num_imputer_diabetes.pkl",
          cat_imputer_file |-> "",
          features |-> <<"Glucose", "BloodPressure", "SkinThickness", "Insulin", "BMI",
                         "DiabetesPedigreeFunction", "Age">>,
          imputer_cols |-> <<"Glucose", "BloodPressure", "SkinThickness", "Insulin", "BMI">>,
          enc_cols |-> <<>>,
          enc_classes |-> <<>> ],
      hypertension |->
        [ dir |-> "../Hypertension ML", csv |-> "hypertension.csv",
          model_file |-> "xgb_hypertension_model.pkl",
          scaler_file |-> "scaler_hypertension.pkl",
          encoders_file |-> "encoders_hypertension.pkl",
          num_imputer_file |-> "num_imputer_hypertension.pkl",
          cat_imputer_file |-> "",
          features |-> <<"Systolic_BP", "Diastolic_BP", "Heart_Rate", "BMI", "Age", "Gender">>,
          imputer_cols |-> <<"Systolic_BP", "Diastolic_BP", "Heart_Rate", "BMI">>,
          enc_cols |-> <<"Gender">>,
          enc_classes |-> <<GenderClasses>> ],
      ckd |->
        [ dir |-> "../Chronic Kidney disease(CKD) ML", csv |-> "ckd.csv",
          model_file |-> "xgb_ckd_simple_model.pkl", scaler_file |-> "scaler_ckd_simple.pkl",
          encoders_file |-> "encoders_ckd_simple.pkl",
          num_imputer_file |-> "num_imputer_ckd_simple.pkl",
          cat_imputer_file |-> "",
          features |-> <<"age", "bp", "bgr", "bu", "sc", "hemo", "htn">>,
          imputer_cols |-> <<"age", "bp", "bgr", "bu", "sc", "hemo">>,
          enc_cols |-> <<"htn">>,
          enc_classes |-> << <<Str("0.0"), Str("1.0"), Str("nan")>> >> ],
      asthma |->
        [ dir |-> "../Asthma ML", csv |-> "asthma_disease_data.csv",
          model_file |-> "xgb_asthma_model.pkl", scaler_file |-> "scaler_asthma.pkl",
          encoders_file |-> "encoders_asthma.pkl",
          num_imputer_file |-> "num_imputer_asthma.pkl",
          cat_imputer_file |-> "",
          features |-> <<"Age", "Gender", "BMI", "Smoking", "Wheezing", "ShortnessOfBreath",
                         "Coughing", "ExerciseInduced">>,
          imputer_cols |-> <<"Age", "BMI">>,
          enc_cols |-> <<"Gender", "Smoking", "Wheezing", "ShortnessOfBreath", "Coughing",
                         "ExerciseInduced", "Diagnosis">>,
          enc_classes |-> <<DigitClasses, DigitClasses, DigitClasses, DigitClasses,
                            DigitClasses, DigitClasses, DigitClasses>> ],
      arthritis |->
        [ dir |-> Join("../Arthritis_ML/data", "data"), csv |-> "synthetic_arthritis_highacc.csv",
          model_file |-> "xgb_arthritis_highacc.pkl",
          scaler_file |-> "scaler_arthritis_highacc.pkl",
          encoders_file |-> "encoders_arthritis_highacc.pkl",
          num_imputer_file |-> "num_imputer_arthritis_highacc.pkl",
          cat_imputer_file |-> "",
          features |-> <<"Pain_Level", "Joint_Mobility", "Stiffness", "Swelling", "Age",
                         "Gender", "Pain_Stiffness", "Pain_Swelling", "Stiffness_Swelling">>,
          imputer_cols |-> <<"Pain_Level", "Joint_Mobility", "Stiffness", "Swelling">>,
          enc_cols |-> <<"Gender">>,
          enc_classes |-> <<GenderClasses>> ],
      copd |->
        [ dir |-> Join("../COPD_ML", "data"), csv |-> "synthetic_copd_highacc.csv",
          model_file |-> "xgb_copd_highacc.pkl", scaler_file |-> "scaler_copd_highacc.pkl",
          encoders_file |-> "encoders_copd_highacc.pkl",
          num_imputer_file |-> "num_imputer_copd_highacc.pkl",
          cat_imputer_file |-> "",
          features |-> <<"Age", "Oxygen_Level", "Oxygen_Low", "Cough_SOB", "Cough_Fatigue",
                         "Gender", "Smoking_History", "Cough", "Shortness_of_Breath",
                         "Fatigue">>,
          imputer_cols |-> <<"Age", "Oxygen_Level", "Oxygen_Low", "Cough_SOB", "Cough_Fatigue">>,
          enc_cols |-> <<"Gender", "Smoking_History", "Cough", "Shortness_of_Breath",
                         "Fatigue">>,
          enc_classes |-> <<GenderClasses, SmokingClasses, SeverityClasses, SeverityClasses,
                            SeverityClasses>> ],
      liver |->
        [ dir |-> Join("../Liver_ML/data", "data"), csv |-> "synthetic_liver.csv",
          model_file |-> "xgb_liver.pkl", scaler_file |-> "scaler_liver.pkl",
          encoders_file |-> "encoders_liver.pkl", num_imputer_file |-> "num_imputer_liver.pkl",
          cat_imputer_file |-> "",
          features |-> <<"Age", "BMI", "ALT", "AST", "Bilirubin", "Fatigue", "Jaundice",
                         "Nausea", "Abdominal_Pain">>,
          imputer_cols |-> <<"Age", "BMI", "ALT", "AST", "Bilirubin">>,
          enc_cols |-> <<"Fatigue", "Jaundice", "Nausea", "Abdominal_Pain">>,
          enc_classes |-> <<SeverityClasses, SeverityClasses, SeverityClasses,
                            SeverityClasses>> ] ]

(***************************************************************************)
(* Fitting on training data set g.  The medians, means and the classifier  *)
(* are functions of the data; the medians are of positive measurements and *)
(* so are never zero.                                                      *)
(***************************************************************************)
FitImputer(cols, g) ==
    Blob("num_imputer", g, cols, [j \in 1..Len(cols) |-> 10 * g + j], <<>>, <<>>,
         Len(cols), 0)

FitCatImputer(cols, g) == Blob("cat_imputer", g, cols, <<>>, <<>>, <<>>, Len(cols), 0)

FitEncoders(cols, classes, g) == Blob("encoders", g, cols, <<>>, <<>>, classes, Len(cols), 0)

FitScaler(cols, g) ==
    Blob("scaler", g, cols, [j \in 1..Len(cols) |-> g + j], [j \in 1..Len(cols) |-> 2],
         <<>>, Len(cols), 0)

FitModel(n, g) == Blob("model", g, <<>>, <<>>, <<>>, <<>>, n, g)

\* the objects a script holds after its module-level training on data set g
ScriptFit(d, g) ==
    LET sc == SCRIPTS[d] IN
    [ model |-> FitModel(Len(sc.features), g),
      scaler |-> FitScaler(sc.features, g),
      encoders |-> IF sc.encoders_file = "" THEN NoFile
                   ELSE FitEncoders(sc.enc_cols, sc.enc_classes, g),
      num_imputer |-> FitImputer(sc.imputer_cols, g),
      cat_imputer |-> IF sc.cat_imputer_file = "" THEN NoFile
                      ELSE FitCatImputer(sc.enc_cols, g) ]

\* The artifacts a script loads from its folder when the file is there,
\* instead of fitting and dumping them (Arthritis_ML/data/model.py 73-79,
\* 86-96, 119-125, 131-145; COPD_ML and Liver_ML alike, except that their
\* encoders are fitted and dumped on every run).
Reused(d) ==
    IF d = "arthritis" THEN {"model", "scaler", "encoders", "num_imputer"}
    ELSE IF d \in {"copd", "liver"} THEN {"model", "scaler", "num_imputer"}
    ELSE {}

\* the objects a script holds after its module-level code has run on data
\* set g with `found` in its folder
ScriptObjects(d, g, found) ==
    [ k \in Range(ArtifactKinds) |->
        IF k \in Reused(d) /\ Present(found[k]) THEN found[k] ELSE ScriptFit(d, g)[k] ]

(***************************************************************************)
(* encode_categorical_features (main.py 234-285): friendly labels to       *)
(* numbers, digit strings to int, everything else unchanged; the heart     *)
(* model's categorical columns are left raw.                               *)
(***************************************************************************)
mapping ==
    [ s \in {"Male", "Yes", "Yes, swelling", "Mild", "Sometimes", "Rarely", "Light",
             "Lightly active", "Mild pain", "Mild cough", "Used to smoke", "Some relatives",
             "Slightly high", "Mild allergies", "Normal amount"} |-> 1 ]
    @@ [ s \in {"Female", "No", "No swelling", "None", "Never", "Normal", "Good", "No pain",
                "No cough", "No fatigue", "Never smoked", "No family history", "Not active",
                "Sedentary", "Normal BP", "No allergies", "Low salt diet"} |-> 0 ]
    @@ [ s \in {"Moderate", "Often", "Moderately active", "Moderate pain", "Moderate cough",
                "Light smoker", "Close relatives", "High BP", "Moderate allergies",
                "High salt diet"} |-> 2 ]
    @@ [ s \in {"Severe", "Always", "Very active", "Severe pain", "Severe cough",
                "Heavy smoker", "Currently smoke", "Parents or siblings", "Parents/Siblings",
                "Very high BP", "Severe allergies"} |-> 3 ]

\* str.isdigit() and int(): the digit strings that occur in the modelled bodies
DigitValue == [ s \in {"0", "1", "2", "3"} |->
                  CASE s = "0" -> 0 [] s = "1" -> 1 [] s = "2" -> 2 [] s = "3" -> 3 ]

IsDigitStr(v) == IsStr(v) /\ v.s \in DOMAIN DigitValue

EncodeValue(v) ==
    IF IsStr(v) /\ v.s \in DOMAIN mapping THEN Num(mapping[v.s])
    ELSE IF IsDigitStr(v) THEN Num(DigitValue[v.s])
    ELSE v

encode_categorical_features(features, model_type) ==
    [ i \in 1..Len(features) |->
        IF model_type = "heart" /\ InSeq(features[i].k, MODEL_CONFIGS["heart"].categorical_cols)
        THEN features[i]
        ELSE Cell(features[i].k, EncodeValue(features[i].v)) ]

(***************************************************************************)
(* _coerce_for_encoder (main.py 303-334), heart only.                      *)
(***************************************************************************)
\* v.strip().lower() for the labels that occur in the modelled bodies
Lower(s) ==
    CASE s = "Male" -> "male" [] s = "Female" -> "female" [] s = "Yes" -> "yes"
      [] s = "No" -> "no" [] s = "True" -> "true" [] s = "False" -> "false"
      [] OTHER -> s

CoerceNumericClasses(v) ==
    IF IsStr(v)
    THEN IF Lower(v.s) \in {"male", "m", "yes", "true", "1"} THEN Num(1)
         ELSE IF Lower(v.s) \in {"female", "f", "no", "false", "0"} THEN Num(0)
         ELSE IF IsDigitStr(v) THEN Num(DigitValue[v.s])
         ELSE v
    ELSE IF v.t = "bool" THEN Num(v.n)
    ELSE v

CoerceStringClasses(classes, v) ==
    IF v.t = "bool" THEN Str(IF v.n = 1 THEN "True" ELSE "False")
    ELSE IF IsNum(v) THEN (IF v.n = 1 THEN classes[2] ELSE classes[1])
    ELSE v

coerce_for_encoder(classes, v) ==
    IF classes = <<>> THEN v
    ELSE IF \A c \in 1..Len(classes) : IntLike(classes[c]) THEN CoerceNumericClasses(v)
    ELSE IF \A c \in 1..Len(classes) : IsStr(classes[c]) THEN CoerceStringClasses(classes, v)
    ELSE v

(***************************************************************************)
(* Preprocessing steps shared by the branches of make_prediction.  A step  *)
(* takes and returns [err, row]; err is the message of the exception that  *)
(* left the step, "" if none did.                                          *)
(***************************************************************************)
Ok(row) == [err |-> "", row |-> row]

Raise(msg, row) == [err |-> msg, row |-> row]

\* encoder.transform of one column with the unseen-label fallback
\* (main.py 340-348 and 400-408): an unseen label becomes 0
EncodeColumn(classes, v) ==
    LET r == EncoderTransform(classes, v) IN
    IF r.err = "" THEN r.v ELSE Num(0)

RECURSIVE EncodeColumns(_, _, _, _)
EncodeColumns(enc, cols, row, heart) ==
    IF cols = <<>> THEN Ok(row)
    ELSE LET col == Head(cols) IN
         IF ~Has(row, col) THEN EncodeColumns(enc, Tail(cols), row, heart)
         ELSE IF ~InSeq(col, enc.cols) THEN Raise("KeyError: " \o col, row)
         ELSE LET classes == EncoderClasses(enc, col)
                  v == IF heart THEN coerce_for_encoder(classes, Get(row, col))
                       ELSE Get(row, col)
              IN EncodeColumns(enc, Tail(cols), SetCol(row, col, EncodeColumn(classes, v)),
                               heart)

\* df[cols] : the listed columns in the listed order, KeyError if one is absent
MissingOf(row, cols) == FilterSeq(cols, {c \in Range(cols) : ~Has(row, c)})

\* df[cols] with an absent column filled with 0 instead of raising
SelectCols_Defaulted(row, cols) ==
    Ok([j \in 1..Len(cols) |->
          Cell(cols[j], IF Has(row, cols[j]) THEN Get(row, cols[j]) ELSE Num(0))])

SelectCols(row, cols) ==
    IF MissingOf(row, cols) # <<>>
    THEN Raise("KeyError: " \o MissingOf(row, cols)[1] \o " not in index", row)
    ELSE Ok([j \in 1..Len(cols) |-> Cell(cols[j], Get(row, cols[j]))])

\* df[cols] = num_imputer.transform(df[cols])
ImputeCols(imp, cols, row) ==
    IF MissingOf(row, cols) # <<>>
    THEN Raise("KeyError: " \o MissingOf(row, cols)[1] \o " not in index", row)
    ELSE ImputerTransform(imp, cols, row)

\* scaler.transform(frame) if there is a scaler, frame.values otherwise
ScaleFrame(artifacts, sel) ==
    IF sel.err # "" THEN [err |-> sel.err, vec |-> <<>>, obj |-> artifacts.scaler]
    ELSE IF Present(artifacts.scaler) THEN ScalerTransform(artifacts.scaler, sel.row)
    ELSE IF \E j \in 1..Len(sel.row) : IsStr(sel.row[j].v)
         THEN [err |-> "ValueError: could not convert string to float", vec |-> <<>>,
               obj |-> NoFile]
         ELSE RawValues(sel.row)

(***************************************************************************)
(* The three preprocessing branches of make_prediction (main.py 298-420).  *)
(* Each returns [err, pre, vec, scaler]: the exception message if one was  *)
(* raised, the frame as it stands before scaling, the scaled vector, and   *)
(* the scaler object after the call.                                       *)
(***************************************************************************)
Then(st, vecres) ==
    [err |-> vecres.err, pre |-> st.row, vec |-> vecres.vec, scaler |-> vecres.obj]

Failed(st, artifacts) ==
    [err |-> st.err, pre |-> st.row, vec |-> <<>>, scaler |-> artifacts.scaler]

\* the last step of every branch: the frame is selected, scaled and handed on
ScaleStep(artifacts, config, st, select) ==
    IF st.err # "" THEN Failed(st, artifacts)
    ELSE Then(st, ScaleFrame(artifacts,
                             IF select THEN SelectCols(st.row, config.features)
                             ELSE Ok(st.row)))

\* main.py 350-354: the numerical columns are imputed
HeartImpute(artifacts, numerical_cols, s1) ==
    IF s1.err # "" THEN s1
    ELSE IF Present(artifacts.num_imputer)
         THEN ImputeCols(artifacts.num_imputer, numerical_cols, s1.row)
         ELSE s1

\* main.py 298-359
HeartBranch(artifacts, config, encoded) ==
    ScaleStep(artifacts, config,
            HeartImpute(artifacts,
                        FilterSeq(config.features,
                                  Range(config.features) \ Range(config.categorical_cols)),
                        IF Present(artifacts.encoders) /\ config.has_categorical_cols
                        THEN EncodeColumns(artifacts.encoders, config.categorical_cols,
                                           encoded, TRUE)
                        ELSE Ok(encoded)),
            TRUE)

\* key_mapping (main.py 363-368)
key_mapping ==
    [ glucose |-> "Glucose", bloodPressure |-> "BloodPressure",
      skinThickness |-> "SkinThickness", insulin |-> "Insulin", bmi |-> "BMI",
      diabetesPedigreeFunction |-> "DiabetesPedigreeFunction", age |-> "Age" ]

MapKey(k) == IF k \in DOMAIN key_mapping THEN key_mapping[k] ELSE k

\* the dict comprehension of main.py 370: a repeated key keeps its first
\* position and takes the last value
RECURSIVE MapKeys(_, _, _)
MapKeys(encoded, features, acc) ==
    IF encoded = <<>> THEN acc
    ELSE LET k == MapKey(Head(encoded).k) IN
         MapKeys(Tail(encoded), features,
                 IF InSeq(k, features) THEN SetCol(acc, k, Head(encoded).v) ELSE acc)

\* main.py 373-377: the zero-sentinel columns present in the frame are imputed
DiabetesImpute(artifacts, config, df, available_cols) ==
    IF Present(artifacts.num_imputer) /\ config.has_zero_cols /\ available_cols # <<>>
    THEN ImputeCols(artifacts.num_imputer, available_cols, df)
    ELSE Ok(df)

DiabetesFrame(artifacts, config, df) ==
    ScaleStep(artifacts, config,
            DiabetesImpute(artifacts, config, df,
                           FilterSeq(config.zero_cols, Range(Keys(df)))),
            FALSE)

\* main.py 361-383
DiabetesBranch(artifacts, config, encoded) ==
    DiabetesFrame(artifacts, config, MapKeys(encoded, config.features, <<>>))

\* the interaction features of the arthritis model (main.py 411-414)
Product(row, a, b) ==
    IF IsNull(Get(row, a)) \/ IsNull(Get(row, b)) THEN Null
    ELSE Num(Get(row, a).n * Get(row, b).n)

Interactions_KeepSupplied(row) ==
    IF MissingOf(row, <<"Pain_Level", "Stiffness", "Swelling">>) # <<>>
    THEN Raise("KeyError: " \o MissingOf(row, <<"Pain_Level", "Stiffness", "Swelling">>)[1],
               row)
    ELSE IF \E c \in {"Pain_Level", "Stiffness", "Swelling"} : IsStr(Get(row, c))
    THEN Raise("TypeError: can't multiply sequence by non-int", row)
    ELSE LET keep(r, c, v) == IF InSeq(c, Keys(r)) THEN r ELSE SetCol(r, c, v)
             r1 == keep(row, "Pain_Stiffness", Product(row, "Pain_Level", "Stiffness"))
             r2 == keep(r1, "Pain_Swelling", Product(row, "Pain_Level", "Swelling"))
         IN Ok(keep(r2, "Stiffness_Swelling", Product(row, "Stiffness", "Swelling")))

Interactions(row) ==
    IF MissingOf(row, <<"Pain_Level", "Stiffness", "Swelling">>) # <<>>
    THEN Raise("KeyError: " \o MissingOf(row, <<"Pain_Level", "Stiffness", "Swelling">>)[1],
               row)
    ELSE IF \E c \in {"Pain_Level", "Stiffness", "Swelling"} : IsStr(Get(row, c))
    THEN Raise("TypeError: can't multiply sequence by non-int", row)
    ELSE LET r1 == SetCol(row, "Pain_Stiffness", Product(row, "Pain_Level", "Stiffness"))
             r2 == SetCol(r1, "Pain_Swelling", Product(row, "Pain_Level", "Swelling"))
         IN Ok(SetCol(r2, "Stiffness_Swelling", Product(row, "Stiffness", "Swelling")))

\* main.py 387-392: the zero-sentinel columns present in the frame are imputed
GenericImpute(artifacts, encoded, available_zero_cols) ==
    IF Present(artifacts.num_imputer) /\ available_zero_cols # <<>>
    THEN ImputeCols(artifacts.num_imputer, available_zero_cols, encoded)
    ELSE Ok(encoded)

\* main.py 394-408: every column that has an encoder is encoded
GenericEncode(artifacts, s1) ==
    IF s1.err # "" THEN s1
    ELSE IF Present(artifacts.encoders)
         THEN EncodeColumns(artifacts.encoders, artifacts.encoders.cols, s1.row, FALSE)
         ELSE s1

\* main.py 410-414
GenericInteractions(model_type, s2) ==
    IF s2.err # "" THEN s2
    ELSE IF model_type = "arthritis" THEN Interactions(s2.row)
    ELSE s2

\* main.py 385-420
GenericBranch(model_type, artifacts, config, encoded) ==
    ScaleStep(artifacts, config,
            GenericInteractions(model_type,
                GenericEncode(artifacts,
                    GenericImpute(artifacts, encoded,
                                  FilterSeq(config.zero_cols, Range(Keys(encoded)))))),
            TRUE)

PreprocessEncoded(model_type, artifacts, config, encoded) ==
    IF model_type = "heart" THEN HeartBranch(artifacts, config, encoded)
    ELSE IF model_type = "diabetes" THEN DiabetesBranch(artifacts, config, encoded)
    ELSE GenericBranch(model_type, artifacts, config, encoded)

Preprocess(model_type, artifacts, features) ==
    PreprocessEncoded(model_type, artifacts, MODEL_CONFIGS[model_type],
                      encode_categorical_features(features, model_type))

(***************************************************************************)
(* The file system the service and the scripts share, the artifact loader  *)
(* with its cache, and the fallback trainer.                               *)
(***************************************************************************)
FileKinds == {"model_file", "scaler_file", "encoders_file", "num_imputer_file",
              "cat_imputer_file"}

AllPaths ==
    UNION { {Join(MODEL_CONFIGS[d].path, MODEL_CONFIGS[d][f]) : f \in FileKinds}
            \cup {Join(SCRIPTS[d].dir, SCRIPTS[d][f]) : f \in FileKinds}
            \cup {Join(MODEL_CONFIGS[d].path, SCRIPTS[d].csv)}
            : d \in DOMAIN MODEL_CONFIGS }

\* path.exists() and joblib.load(path)
FileAt(fs, dir, name) == IF name = "" THEN NoFile ELSE fs[Join(dir, name)]

\* CSV_MAP (main.py 156-162)
CSV_MAP ==
    [ heart |-> "heart.csv", diabetes |-> "diabetes.csv", ckd |-> "ckd.csv",
      asthma |-> "asthma_disease_data.csv", hypertension |-> "hypertension.csv" ]

\* The raw CSVs the fallback trainer can fit: its target conversion needs a
\* numeric last column.  The CKD and hypertension data carry string targets
\* ('ckd', 'Low'/'High') and '?' cells, on which the trainer raises.
FallbackTrainable == {"heart", "diabetes", "asthma"}

\* classes_ of an encoder fitted on the raw CSV column
RawClasses(model_type, col) ==
    IF model_type = "heart"
    THEN (IF col = "sex" THEN GenderClasses ELSE <<Bool(FALSE), Bool(TRUE)>>)
    ELSE <<Num(0), Num(1)>>

\* main.py 538-585: the objects the fallback trainer fits on the CSV
FallbackFit(model_type, cfg, csv, numerical_cols) ==
    [ model |-> FitModel(Len(cfg.features), csv.gen),
      scaler |-> FitScaler(cfg.features, csv.gen),
      encoders |-> FitEncoders(cfg.categorical_cols,
                               [j \in 1..Len(cfg.categorical_cols) |->
                                  RawClasses(model_type, cfg.categorical_cols[j])],
                               csv.gen),
      num_imputer |-> FitImputer(numerical_cols, csv.gen),
      cat_imputer |-> FitCatImputer(cfg.categorical_cols, csv.gen) ]

FallbackOn(model_type, cfg, csv) ==
    IF ~Present(csv) THEN EmptyArtifacts
    ELSE IF model_type \notin FallbackTrainable THEN EmptyArtifacts
    ELSE FallbackFit(model_type, cfg, csv,
                     FilterSeq(cfg.features,
                               Range(cfg.features) \ Range(cfg.categorical_cols)))

FallbackFor(model_type, cfg, fs) ==
    FallbackOn(model_type, cfg, FileAt(fs, cfg.path, CSV_MAP[model_type]))

\* train_model_fallback (main.py 511-588); EmptyArtifacts stands for None
train_model_fallback(model_type, fs) ==
    IF model_type \notin DOMAIN CSV_MAP THEN EmptyArtifacts
    ELSE FallbackFor(model_type, MODEL_CONFIGS[model_type], fs)

\* ReadArtifacts with the scaler read from the model file
ReadArtifacts_WrongFile(fs, cfg) ==
    [ model |-> FileAt(fs, cfg.path, cfg.model_file),
      scaler |-> FileAt(fs, cfg.path, cfg.model_file),
      encoders |-> FileAt(fs, cfg.path, cfg.encoders_file),
      num_imputer |-> FileAt(fs, cfg.path, cfg.num_imputer_file),
      cat_imputer |-> FileAt(fs, cfg.path, cfg.cat_imputer_file) ]

\* the files of one configured model, as far as they exist (main.py 178-211)
ReadArtifacts(fs, cfg) ==
    [ model |-> FileAt(fs, cfg.path, cfg.model_file),
      scaler |-> FileAt(fs, cfg.path, cfg.scaler_file),
      encoders |-> FileAt(fs, cfg.path, cfg.encoders_file),
      num_imputer |-> FileAt(fs, cfg.path, cfg.num_imputer_file),
      cat_imputer |-> FileAt(fs, cfg.path, cfg.cat_imputer_file) ]

EmptyCache == [d \in DOMAIN MODEL_CONFIGS |-> EmptyArtifacts]

\* main.py 213-222: with no model file the fallback trainer is tried
Loaded(model_type, cache, artifacts, trained) ==
    [artifacts |-> artifacts,
     cache |-> IF artifacts # EmptyArtifacts THEN [cache EXCEPT ![model_type] = artifacts]
               ELSE cache,
     read |-> TRUE, trained |-> trained]

LoadFrom(model_type, cache, fs, artifacts) ==
    IF ~Present(artifacts.model)
    THEN Loaded(model_type, cache, train_model_fallback(model_type, fs), TRUE)
    ELSE Loaded(model_type, cache, artifacts, FALSE)

\* load_model_artifacts without the cache lookup: the files are read on every call
load_model_artifacts_Reload(model_type, cache, fs) ==
    IF ~Configured(model_type)
    THEN [artifacts |-> EmptyArtifacts, cache |-> cache, read |-> FALSE, trained |-> FALSE]
    ELSE LoadFrom(model_type, cache, fs, ReadArtifacts(fs, MODEL_CONFIGS[model_type]))

\* load_model_artifacts (main.py 163-232): [artifacts, cache, read, trained];
\* artifacts = EmptyArtifacts stands for the None it returns
load_model_artifacts(model_type, cache, fs) ==
    IF Configured(model_type) /\ cache[model_type] # EmptyArtifacts
    THEN [artifacts |-> cache[model_type], cache |-> cache, read |-> FALSE,
          trained |-> FALSE]
    ELSE IF ~Configured(model_type)
    THEN [artifacts |-> EmptyArtifacts, cache |-> cache, read |-> FALSE, trained |-> FALSE]
    ELSE LoadFrom(model_type, cache, fs, ReadArtifacts(fs, MODEL_CONFIGS[model_type]))

(***************************************************************************)
(* make_prediction (main.py 287-431): load, preprocess, then the two       *)
(* classifier calls.  err is the message of the exception that leaves it.  *)
(* The artifacts dict is the cached object itself, so the cache holds its  *)
(* objects as they are after the calls made on them.                       *)
(***************************************************************************)
AfterCalls(ld, model_type, scaler) ==
    IF ld.cache[model_type] = EmptyArtifacts THEN ld.cache
    ELSE [ld.cache EXCEPT ![model_type].scaler = scaler]

NoPrediction(err, ld, pp, cache) ==
    [err |-> err, pred_prob |-> 0, prediction |-> 0, cache |-> cache, read |-> ld.read,
     trained |-> ld.trained, predicted |-> FALSE, pre |-> pp.pre, vec |-> pp.vec,
     artifacts |-> ld.artifacts]

\* main.py 422-427: the two classifier calls on the preprocessed vector
Classify(ld, pp, after) ==
    IF pp.err # "" THEN NoPrediction(pp.err, ld, pp, after)
    ELSE IF ~ModelAccepts(ld.artifacts.model, pp.vec)
    THEN NoPrediction("ValueError: feature shape mismatch", ld, pp, after)
    ELSE [err |-> "",
          pred_prob |-> predict_proba(ld.artifacts.model, pp.vec),
          prediction |-> predict(ld.artifacts.model, pp.vec),
          cache |-> after, read |-> ld.read, trained |-> ld.trained,
          predicted |-> TRUE, pre |-> pp.pre, vec |-> pp.vec,
          artifacts |-> ld.artifacts]

Preprocessed(model_type, ld, pp) == Classify(ld, pp, AfterCalls(ld, model_type, pp.scaler))

PredictWith(model_type, features, ld) ==
    IF ld.artifacts = EmptyArtifacts
    THEN NoPrediction("Model artifacts not available for '" \o model_type \o "'", ld,
                      [pre |-> <<>>, vec |-> <<>>], ld.cache)
    ELSE Preprocessed(model_type, ld, Preprocess(model_type, ld.artifacts, features))

make_prediction(model_type, features, cache, fs) ==
    PredictWith(model_type, features, load_model_artifacts(model_type, cache, fs))

(***************************************************************************)
(* Request bodies.  TestBody is the body the integration test sends for    *)
(* each model (test_integration.py 52-102; decimals in tenths); the other  *)
(* bodies change or drop one of its keys.                                  *)
(***************************************************************************)
TestBody ==
    [ heart |->
        <<Cell("age", Num(45)), Cell("sex", Num(1)), Cell("trestbps", Num(130)),
          Cell("chol", Num(250)), Cell("fbs", Num(0)), Cell("thalch", Num(150))>>,
      diabetes |->
        <<Cell("glucose", Num(120)), Cell("bloodPressure", Num(80)),
          Cell("skinThickness", Num(20)), Cell("insulin", Num(85)), Cell("bmi", Num(250)),
          Cell("diabetesPedigreeFunction", Num(5)), Cell("age", Num(30))>>,
      hypertension |->
        <<Cell("Systolic_BP", Num(140)), Cell("Diastolic_BP", Num(90)),
          Cell("Heart_Rate", Num(80)), Cell("BMI", Num(285)), Cell("Age", Num(50)),
          Cell("Gender", Num(0))>>,
      ckd |->
        <<Cell("age", Num(60)), Cell("bp", Num(2)), Cell("bgr", Num(120)),
          Cell("bu", Num(25)), Cell("sc", Num(12)), Cell("hemo", Num(125)),
          Cell("htn", Num(1))>>,
      asthma |->
        <<Cell("Age", Num(30)), Cell("Gender", Num(1)), Cell("BMI", Num(250)),
          Cell("Smoking", Num(1)), Cell("Wheezing", Num(2)),
          Cell("ShortnessOfBreath", Num(1)), Cell("Coughing", Num(2)),
          Cell("ExerciseInduced", Num(1))>>,
      arthritis |->
        <<Cell("Pain_Level", Num(50)), Cell("Joint_Mobility", Num(650)),
          Cell("Stiffness", Num(60)), Cell("Swelling", Num(30)), Cell("Age", Num(55)),
          Cell("Gender", Num(0))>>,
      copd |->
        <<Cell("Age", Num(65)), Cell("Oxygen_Level", Num(880)), Cell("Gender", Num(1)),
          Cell("Smoking_History", Num(1)), Cell("Cough", Num(2)),
          Cell("Shortness_of_Breath", Num(2)), Cell("Fatigue", Num(2)),
          Cell("Oxygen_Low", Num(120)), Cell("Cough_SOB", Num(40)),
          Cell("Cough_Fatigue", Num(40))>>,
      liver |->
        <<Cell("Age", Num(50)), Cell("BMI", Num(280)), Cell("ALT", Num(450)),
          Cell("AST", Num(400)), Cell("Bilirubin", Num(15)), Cell("Fatigue", Num(2)),
          Cell("Jaundice", Num(1)), Cell("Nausea", Num(1)), Cell("Abdominal_Pain", Num(1))>> ]

\* the request key that carries a model column (diabetes bodies are camelCase)
RequestKey(d, col) ==
    IF d = "diabetes" /\ \E k \in DOMAIN key_mapping : key_mapping[k] = col
    THEN CHOOSE k \in DOMAIN key_mapping : key_mapping[k] = col
    ELSE col

\* the keys the modelled bodies vary: the first key, the first zero-sentinel
\* column and the first categorical column of the model
VaryKeys(d) ==
    LET cfg == MODEL_CONFIGS[d] IN
    {TestBody[d][1].k}
    \cup (IF cfg.zero_cols = <<>> THEN {} ELSE {RequestKey(d, cfg.zero_cols[1])})
    \cup (IF cfg.categorical_cols = <<>> THEN {} ELSE {cfg.categorical_cols[1]})

VaryValues == {Num(0), Null, Str("Other"), Str("Male")}

Without(row, k) == FilterSeq(row, {c \in Range(row) : c.k # k})

\* the same body with its first two keys in the other order
Swapped(body) == <<body[2], body[1]>> \o SubSeq(body, 3, Len(body))

\* a key the model does not ask for; for arthritis, one of the interaction
\* columns the integration test leaves out (test_integration.py 83-88)
ExtraKey(d) == IF d = "arthritis" THEN "Pain_Stiffness" ELSE "notes"

WithExtra(d, body) == Append(body, Cell(ExtraKey(d), Num(7)))

Bodies(d) ==
    {TestBody[d], Swapped(TestBody[d]), WithExtra(d, TestBody[d])}
    \cup {SetCol(TestBody[d], k, v) : k \in VaryKeys(d), v \in VaryValues}
    \cup {Without(TestBody[d], k) : k \in VaryKeys(d)}

\* a disease key that is not configured
UnknownKeys == {"cancer"}

(***************************************************************************)
(* Routes (main.py 433, 437, 441, 456, 489) and the handlers.              *)
(***************************************************************************)
Route(method, path) ==
    IF method = "GET" /\ path = <<>> THEN "root"
    ELSE IF method = "GET" /\ path = <<"models">> THEN "get_available_models"
    ELSE IF method = "GET" /\ path = <<"models_status">> THEN "get_models_status"
    ELSE IF method = "POST" /\ path = <<"predict", "health_overall">>
    THEN "predict_health_overall"
    ELSE IF method = "POST" /\ Len(path) = 3 /\ path[1] = "predict" /\ path[2] = "disease"
    THEN "predict_disease"
    ELSE "none"

Response(status, detail, risk, prediction, confidence, models) ==
    [status |-> status, detail |-> detail, risk_probability |-> risk,
     prediction |-> prediction, confidence |-> confidence, models |-> models]

NoTrace(handler) ==
    [handler |-> handler, loaded |-> FALSE, read |-> FALSE, trained |-> FALSE,
     predicted |-> FALSE, raised |-> "", pre |-> <<>>, vec |-> <<>>,
     artifacts |-> EmptyArtifacts]

\* get_available_models listing only the models that have an encoders file
get_available_models_Partial ==
    Response(200, "", 0, 0, 0, FilterSeq(ModelKeys, {d \in Range(ModelKeys) :
                                                       MODEL_CONFIGS[d].encoders_file # ""}))

\* get_available_models (main.py 437-439)
get_available_models == Response(200, "", 0, 0, 0, ModelKeys)

\* Answer with the exception swallowed: a default body goes out as a 200
Answer_Swallowed(r) ==
    [resp |-> Response(200, "", r.pred_prob, r.prediction, r.pred_prob, <<>>),
     trace |-> [handler |-> "predict_disease", loaded |-> TRUE, read |-> r.read,
                trained |-> r.trained, predicted |-> r.predicted, raised |-> r.err,
                pre |-> r.pre, vec |-> r.vec, artifacts |-> r.artifacts],
     cache |-> r.cache]

\* main.py 447-454: the result as a 200 body, an exception as a 500
Answer(r) ==
    [resp |-> IF r.err # "" THEN Response(500, r.err, 0, 0, 0, <<>>)
              ELSE Response(200, "", r.pred_prob, r.prediction, r.pred_prob, <<>>),
     trace |-> [handler |-> "predict_disease", loaded |-> TRUE, read |-> r.read,
                trained |-> r.trained, predicted |-> r.predicted, raised |-> r.err,
                pre |-> r.pre, vec |-> r.vec, artifacts |-> r.artifacts],
     cache |-> r.cache]

\* predict_disease without the membership test on MODEL_CONFIGS
predict_disease_Unchecked(model_type, features, cache, fs) ==
    Answer(make_prediction(model_type, features, cache, fs))

\* predict_disease (main.py 441-454): [resp, trace, cache]
predict_disease(model_type, features, cache, fs) ==
    IF ~Configured(model_type)
    THEN [resp |-> Response(404, "Model " \o model_type \o " not found", 0, 0, 0, <<>>),
          trace |-> NoTrace("predict_disease"), cache |-> cache]
    ELSE Answer(make_prediction(model_type, features, cache, fs))

(***************************************************************************)
(* The interactive scripts (Arthritis_ML, COPD_ML, Liver_ML): the row      *)
(* built from the answers to the prompts.  The prompts not varied here     *)
(* are answered with a valid label.                                        *)
(***************************************************************************)
CLIScripts == {"arthritis", "copd", "liver"}

\* float(age_val) for the answers that occur
AgeValue == [ s \in {"45", "46"} |-> IF s = "45" THEN 45 ELSE 46 ]

\* a label of the varied column and an answer that is none of its labels
ValidText(d) == IF d = "liver" THEN "Mild" ELSE IF d = "ckd" THEN "yes" ELSE "Male"

\* capitalize() turns the exit token typed at a categorical prompt into "Exit"
Answers(d) == {ValidText(d), "Other", "Exit"}

\* the categorical column whose prompt is varied
PromptCol(d) == IF d = "liver" THEN "Fatigue" ELSE IF d = "ckd" THEN "htn" ELSE "Gender"

\* Arthritis_ML/data/model.py 188: transform only a label the encoder knows
GuardedEncode(classes, text) ==
    IF \E c \in 1..Len(classes) : classes[c] = Str(text)
    THEN EncoderTransform(classes, Str(text)).v
    ELSE Num(0)

\* Arthritis_ML/data/model.py 182-192 with Pain "Moderate", Mobility "Normal",
\* Stiffness "Mild", Swelling "Mild"
ArthritisRow(mem, age, text) ==
    Ok(<<Cell("Pain_Level", Num(5)), Cell("Joint_Mobility", Num(90)),
         Cell("Stiffness", Num(3)), Cell("Swelling", Num(3)), Cell("Age", Num(age)),
         Cell("Gender", GuardedEncode(EncoderClasses(mem.encoders, "Gender"), text)),
         Cell("Pain_Stiffness", Num(5 * 3)), Cell("Pain_Swelling", Num(5 * 3)),
         Cell("Stiffness_Swelling", Num(3 * 3))>>)

\* COPD_ML/data/model.py 193-211 with Oxygen "Normal", Smoking "Never",
\* Cough "Mild", Shortness of Breath "None", Fatigue "Severe"
CopdCodes(age, gender, smoking, cough, sob, fatigue) ==
    IF gender.err # "" THEN Raise(gender.err, <<>>)
    ELSE Ok(<<Cell("Age", Num(age)), Cell("Oxygen_Level", Num(95)),
              Cell("Oxygen_Low", Num(100 - 95)), Cell("Cough_SOB", Num(cough.n * sob.n)),
              Cell("Cough_Fatigue", Num(cough.n * fatigue.n)), Cell("Gender", gender.v),
              Cell("Smoking_History", smoking), Cell("Cough", cough),
              Cell("Shortness_of_Breath", sob), Cell("Fatigue", fatigue)>>)

CopdRow(mem, age, text) ==
    CopdCodes(age,
              EncoderTransform(EncoderClasses(mem.encoders, "Gender"), Str(text)),
              EncoderTransform(EncoderClasses(mem.encoders, "Smoking_History"),
                               Str("Never")).v,
              EncoderTransform(EncoderClasses(mem.encoders, "Cough"), Str("Mild")).v,
              EncoderTransform(EncoderClasses(mem.encoders, "Shortness_of_Breath"),
                               Str("None")).v,
              EncoderTransform(EncoderClasses(mem.encoders, "Fatigue"), Str("Severe")).v)

\* symptom_map.get(text, 0) (Liver_ML/data/model.py 175, 197-200)
SymptomCode(text) ==
    IF text = "Mild" THEN 1 ELSE IF text = "Severe" THEN 2 ELSE 0

\* Liver_ML/data/model.py 197-218 with BMI 25 and the other symptoms "None";
\* ALT and AST in whole units, bilirubin in hundredths
LiverRow(age, fatigue) ==
    Ok(<<Cell("Age", Num(age)), Cell("BMI", Num(25)),
         Cell("ALT", Num(20 + (40 * fatigue) \div 8)),
         Cell("AST", Num(18 + (35 * fatigue) \div 8)),
         Cell("Bilirubin", Num(80)), Cell("Fatigue", Num(fatigue)),
         Cell("Jaundice", Num(0)), Cell("Nausea", Num(0)), Cell("Abdominal_Pain", Num(0))>>)

\* The scripts that ask once, predict, store the row and retrain
\* (predict_from_user of CKD, Asthma and Hypertension ML/model.py).
OneShotScripts == {"ckd", "asthma", "hypertension"}

\* user_data in the order its keys are assigned (Asthma ML/model.py 119-127)
OneShotCols(d) ==
    IF d = "asthma"
    THEN <<"Age", "BMI", "Gender", "Smoking", "Wheezing", "ShortnessOfBreath", "Coughing",
           "ExerciseInduced">>
    ELSE SCRIPTS[d].features

\* the value of one column with 1 typed at the other numeric prompts and Yes
\* at the other categorical ones: get_binary_input gives 1 for yes (CKD
\* model.py 112-118), the other two scripts encode a known label and put 0
\* for the rest (Asthma ML/model.py 132-134, Hypertension ML/model.py 119-124)
OneShotCell(d, mem, col, age, text) ==
    IF col \in {"age", "Age"} THEN Num(age)
    ELSE IF d = "ckd" /\ col = "htn" THEN Num(1)
    ELSE IF InSeq(col, SCRIPTS[d].enc_cols)
    THEN GuardedEncode(EncoderClasses(mem.encoders, col),
                       IF col = PromptCol(d) THEN text ELSE "Yes")
    ELSE Num(1)

OneShotRow(d, mem, age, text) ==
    Ok([i \in 1..Len(OneShotCols(d)) |->
          Cell(OneShotCols(d)[i], OneShotCell(d, mem, OneShotCols(d)[i], age, text))])

\* user_data of the script, or the exception raised while building it
UserRow(d, mem, age, text) ==
    IF age \notin DOMAIN AgeValue
    THEN Raise("ValueError: could not convert string to float: '" \o age \o "'", <<>>)
    ELSE IF d = "arthritis" THEN ArthritisRow(mem, AgeValue[age], text)
    ELSE IF d = "copd" THEN CopdRow(mem, AgeValue[age], text)
    ELSE IF d \in OneShotScripts THEN OneShotRow(d, mem, AgeValue[age], text)
    ELSE LiverRow(AgeValue[age], SymptomCode(text))

\* user_df[cols] = num_imputer.transform(user_df[cols]), then
\* scaler.transform(user_df[features]) (e.g. COPD_ML/data/model.py 213-215)
UserScaled(d, mem, st) ==
    IF st.err # "" THEN Failed(st, mem)
    ELSE Then(st, ScaleFrame(mem, SelectCols(st.row, SCRIPTS[d].features)))

UserImputed(d, mem, st) ==
    UserScaled(d, mem,
               IF st.err # "" THEN st
               ELSE ImputeCols(mem.num_imputer, SCRIPTS[d].imputer_cols, st.row))

\* the prediction the script reports for the answers, [err, pre, vec, scaler]
UserPrediction(d, mem, age, text) == UserImputed(d, mem, UserRow(d, mem, age, text))

(***************************************************************************)
(* The feedback ledger and the retraining driver.  A data row is its       *)
(* feature vector x and its label y.                                       *)
(***************************************************************************)
DataRow(x, y) == [x |-> x, y |-> y]

\* the label column of the script's data set and of its feedback CSV
TargetCol ==
    [ arthritis |-> "Arthritis", copd |-> "COPD", liver |-> "Liver_Disease",
      ckd |-> "classification", asthma |-> "Diagnosis", hypertension |-> "Hypertension" ]

\* the write that replaces the file whatever os.path.exists said
to_csv_Truncating(lines, exists, user_df, d, label) ==
    <<DataRow(Keys(user_df), TargetCol[d]), DataRow(RawValues(user_df).vec, label)>>

\* user_df.to_csv(FEEDBACK_FILE, mode='a', index=False, header=False) when
\* os.path.exists said the file is there, user_df.to_csv(FEEDBACK_FILE,
\* index=False) otherwise: the file is created or truncated and the column
\* names are written before the row (Arthritis_ML/data/model.py 216-219).
\* A line of the file is its cells x and its last cell y.
to_csv(lines, exists, user_df, d, label) ==
    IF exists
    THEN Append(lines, DataRow(RawValues(user_df).vec, label))
    ELSE <<DataRow(Keys(user_df), TargetCol[d]), DataRow(RawValues(user_df).vec, label)>>

\* the file after `if os.path.exists(FEEDBACK_FILE): ... else: ...` run by one
\* process with no other writer
Saved(lines, user_df, d, label) == to_csv(lines, lines # <<>>, user_df, d, label)

\* pd.read_csv(FEEDBACK_FILE): the first line names the columns, the others
\* are the rows
read_csv(lines) == IF lines = <<>> THEN <<>> ELSE Tail(lines)

\* DataFrame.drop_duplicates(): the first of equal rows is kept
RECURSIVE DropDuplicates(_, _)
DropDuplicates(rows, acc) ==
    IF rows = <<>> THEN acc
    ELSE DropDuplicates(Tail(rows),
                        IF InSeq(Head(rows), acc) THEN acc ELSE Append(acc, Head(rows)))

ClassCount(rows, y) == Cardinality({i \in 1..Len(rows) : rows[i].y = y})

Classes(rows) == {rows[i].y : i \in 1..Len(rows)}

\* ceil(0.2 * n)
TestSize(n) == (n + 4) \div 5

SplitMsg == "ValueError: The least populated class in y has only 1 member"

\* joblib.dump opens the file for writing first: a model file or a folder
\* that may not be written makes the open raise before a byte is written
DumpMsg == "PermissionError: [Errno 13] Permission denied"

\* train_test_split(..., test_size=0.2, stratify=y) raises
SplitFails(rows) ==
    \/ rows = <<>>
    \/ \E y \in Classes(rows) : ClassCount(rows, y) < 2
    \/ TestSize(Len(rows)) < Cardinality(Classes(rows))
    \/ Len(rows) - TestSize(Len(rows)) < Cardinality(Classes(rows))

\* the fit of the train partition of the rows: what is fitted depends on
\* the rows it is fitted on
FitOn(rows) == Len(rows) + ClassCount(rows, 1)

\* the retraining block with the model dumped before the split
Retrain_DumpFirst(d, mem, full, disk_ok) ==
    IF SplitFails(full)
    THEN [err |-> SplitMsg, mem |-> mem,
          dumped |-> FitModel(Len(SCRIPTS[d].features), FitOn(full))]
    ELSE [err |-> "",
          mem |-> [mem EXCEPT !.scaler = FitScaler(SCRIPTS[d].features, FitOn(full)),
                              !.model = FitModel(Len(SCRIPTS[d].features), FitOn(full))],
          dumped |-> FitModel(Len(SCRIPTS[d].features), FitOn(full))]

\* Arthritis_ML/data/model.py 224-236 on the combined, de-duplicated rows:
\* split, scaler.fit_transform, model.fit, joblib.dump(model).  dumped is
\* what is written to the model file, NoFile if nothing is written: the
\* split raised, or the dump did because the file may not be written
\* (~disk_ok), after the scaler and the model objects were re-fitted in
\* place.
Retrain(d, mem, full, disk_ok) ==
    IF SplitFails(full)
    THEN [err |-> SplitMsg, mem |-> mem, dumped |-> NoFile]
    ELSE [err |-> IF disk_ok THEN "" ELSE DumpMsg,
          mem |-> [mem EXCEPT !.scaler = FitScaler(SCRIPTS[d].features, FitOn(full)),
                              !.model = FitModel(Len(SCRIPTS[d].features), FitOn(full))],
          dumped |-> IF disk_ok THEN FitModel(Len(SCRIPTS[d].features), FitOn(full))
                     ELSE NoFile]

\* the scaler and the model objects after scaler.fit_transform and model.fit
\* on the rows
Refitted(d, mem, rows) ==
    [mem EXCEPT !.scaler = FitScaler(SCRIPTS[d].features, FitOn(rows)),
                !.model = FitModel(Len(SCRIPTS[d].features), FitOn(rows))]

\* the retraining of predict_from_user on df and the feedback rows: the
\* hypertension script splits, re-fits and dumps nothing (Hypertension
\* ML/model.py 154-164); the other two re-fit on all rows and dump the
\* model (CKD model.py 159-168, Asthma ML/model.py 156-167)
OneShotRetrain(d, mem, full, disk_ok) ==
    IF d = "hypertension"
    THEN IF SplitFails(full)
         THEN [err |-> SplitMsg, mem |-> mem, dumped |-> NoFile]
         ELSE [err |-> "", mem |-> Refitted(d, mem, full), dumped |-> NoFile]
    ELSE [err |-> IF disk_ok THEN "" ELSE DumpMsg,
          mem |-> Refitted(d, mem, full),
          dumped |-> IF disk_ok THEN Refitted(d, mem, full).model ELSE NoFile]

\* XGBClassifier() without scale_pos_weight weighs both classes alike
DefaultWeight == [neg |-> 1, pos |-> 1]

\* The class counts of the train partition of a stratified split of the
\* rows (test_size 0.2): each class gets the whole part of its share of the
\* train size, and the one row that may be left goes to the class with the
\* larger fractional part, to either when they are equal.
Allot(n, t, c0, c1) ==
    { [neg |-> (t * c0) \div n + e, pos |-> (t * c1) \div n + (left - e)] :
        e \in { x \in 0..1 :
                  /\ x <= t - (t * c0) \div n - (t * c1) \div n
                  /\ (x = 1) => ((t * c0) % n >= (t * c1) % n)
                  /\ (x = 0 /\ t - (t * c0) \div n - (t * c1) \div n = 1)
                         => ((t * c1) % n >= (t * c0) % n) },
        left \in { t - (t * c0) \div n - (t * c1) \div n } }

TrainCounts(rows) ==
    Allot(Len(rows), Len(rows) - TestSize(Len(rows)), ClassCount(rows, 0), ClassCount(rows, 1))

\* scale_pos_weight = counter[0] / max(counter[1], 1) over y_train, passed
\* to XGBClassifier by the CKD and the asthma script (CKD model.py 69-82,
\* Asthma ML/model.py 67-79); no other interactive script sets it
InitialWeights(d, rows) ==
    IF d \in {"ckd", "asthma"} /\ ~SplitFails(rows)
    THEN { [neg |-> c.neg, pos |-> IF c.pos > 1 THEN c.pos ELSE 1] : c \in TrainCounts(rows) }
    ELSE {DefaultWeight}

\* The data sets a script is started on: rows of both classes; the rare
\* class with a repeated row; the rare class with one row.
NegRows == [i \in 1..6 |-> DataRow(<<i>>, 0)]

Datasets ==
    [ plenty |-> NegRows \o [i \in 1..4 |-> DataRow(<<i>>, 1)],
      repeated |-> NegRows \o <<DataRow(<<1>>, 1), DataRow(<<1>>, 1)>>,
      single |-> NegRows \o <<DataRow(<<1>>, 1)>> ]

(***************************************************************************)
(* State of the service and of the file system.  The diseases share no     *)
(* file and no cache entry, so one behaviour exercises the script and the  *)
(* prediction requests of one disease, chosen at the start; every disease  *)
(* is chosen in some behaviour.                                            *)
(***************************************************************************)
VARIABLES
    disease,         \* the disease this behaviour exercises
    files,           \* path -> pickled blob, NoFile if the path does not exist
    saved,           \* the objects the disease's script dumped last
    ARTIFACT_CACHE,  \* the service's module-level cache (main.py 155)
    up,              \* the service process is running
    req,             \* the request being answered, NoRequest when idle
    resp,            \* the response to it
    trace,           \* what the handler did while serving it
    first,           \* response and trace of the same request sent just before
    runs,            \* script runs so far
    script,          \* the interactive script in the terminal, "none" if none
    pc,              \* where its session stands
    mem,             \* the fitted objects the script's process holds
    data,            \* df, the training rows the script read at its start
    ledger,          \* the rows of the script's feedback CSV
    entered,         \* the answers to the last round of prompts
    row,             \* user_df, the row built from them
    report,          \* the prediction printed for it
    raised,          \* the exception that ended the session, "" if none
    weight,          \* scale_pos_weight of the classifier object in the session
    sess,            \* two sessions of one script side by side: where each stands
    order            \* the sessions in the order their joblib.dump completed

service == <<disease, saved, ARTIFACT_CACHE, up, req, resp, trace, first>>

pair == <<sess, order>>

cli == <<script, pc, mem, data, ledger, entered, row, report, raised, weight, pair>>

\* one session's own part of it
alone == <<pc, mem, entered, row, report, raised, weight>>

vars == <<files, runs, service, cli>>

NoAnswers == [age |-> "", text |-> "", label |-> ""]

Sessions == {1, 2}

NoSession == [pc |-> "Away", exists |-> FALSE, line |-> <<>>, snapshot |-> <<>>,
              model |-> NoFile]

NoReport == [pred_prob |-> 0, prediction |-> 0]

NoRequest == [method |-> "", path |-> <<>>, features |-> <<>>]

NoResponse == Response(0, "", 0, 0, 0, <<>>)

NoFirst == [resp |-> NoResponse, trace |-> NoTrace("none")]

Idle == req = NoRequest

Cleared ==
    /\ req' = NoRequest
    /\ resp' = NoResponse
    /\ trace' = NoTrace("none")
    /\ first' = NoFirst

Init ==
    /\ disease \in DOMAIN MODEL_CONFIGS
    /\ \E csvs \in BOOLEAN :
         files = [p \in AllPaths |->
                    IF csvs /\ \E d \in DOMAIN CSV_MAP :
                                 p = Join(MODEL_CONFIGS[d].path, CSV_MAP[d])
                    THEN Blob("csv", 1, <<>>, <<>>, <<>>, <<>>, 0, 0)
                    ELSE NoFile]
    /\ saved = EmptyArtifacts
    /\ ARTIFACT_CACHE = EmptyCache
    /\ up = FALSE
    /\ req = NoRequest
    /\ resp = NoResponse
    /\ trace = NoTrace("none")
    /\ first = NoFirst
    /\ runs = 0
    /\ script = "none"
    /\ pc = "NotStarted"
    /\ mem = EmptyArtifacts
    /\ data = <<>>
    /\ ledger = <<>>
    /\ entered = NoAnswers
    /\ row = <<>>
    /\ report = NoReport
    /\ raised = ""
    /\ weight = DefaultWeight
    /\ sess = [s \in Sessions |-> NoSession]
    /\ order = <<>>

\* joblib.dump of the script's fitted objects under the script's file names
WriteArtifacts(fs, d, fit) ==
    LET sc == SCRIPTS[d] IN
    [p \in AllPaths |->
       IF p = Join(sc.dir, sc.model_file) THEN fit.model
       ELSE IF p = Join(sc.dir, sc.scaler_file) THEN fit.scaler
       ELSE IF sc.encoders_file # "" /\ p = Join(sc.dir, sc.encoders_file) THEN fit.encoders
       ELSE IF p = Join(sc.dir, sc.num_imputer_file) THEN fit.num_imputer
       ELSE IF sc.cat_imputer_file # "" /\ p = Join(sc.dir, sc.cat_imputer_file)
            THEN fit.cat_imputer
       ELSE fs[p]]

\* the artifact files in the script's folder, as far as they exist
ScriptFiles(fs, d) ==
    [ k \in Range(ArtifactKinds) |-> FileAt(fs, SCRIPTS[d].dir, SCRIPTS[d][k \o "_file"]) ]

\* The disease's script is run on data set g: it fits its preprocessing
\* objects and its model, or loads the ones it reuses, and dumps what it
\* fitted (e.g. Hypertension ML/model.py 23-91).
RunScript(g) ==
    /\ runs < MaxRuns
    /\ files' = WriteArtifacts(files, disease,
                               ScriptObjects(disease, g, ScriptFiles(files, disease)))
    /\ saved' = ScriptObjects(disease, g, ScriptFiles(files, disease))
    /\ runs' = runs + 1
    /\ Cleared
    /\ UNCHANGED <<disease, ARTIFACT_CACHE, up, cli>>

\* startup_event (main.py 479-487): a fresh process loads every model
Startup ==
    /\ ~up
    /\ up' = TRUE
    /\ ARTIFACT_CACHE' =
         [d \in DOMAIN MODEL_CONFIGS |->
            load_model_artifacts(d, EmptyCache, files).cache[d]]
    /\ Cleared
    /\ UNCHANGED <<disease, files, saved, runs, cli>>

\* the process ends; its module-level cache goes with it
Shutdown ==
    /\ up
    /\ up' = FALSE
    /\ ARTIFACT_CACHE' = EmptyCache
    /\ Cleared
    /\ UNCHANGED <<disease, files, saved, runs, cli>>

\* the client has its answer; the service is idle again
Finish ==
    /\ ~Idle
    /\ Cleared
    /\ UNCHANGED <<disease, files, saved, ARTIFACT_CACHE, up, runs, cli>>

\* GET /models
GetModels ==
    /\ up /\ Idle
    /\ Route("GET", <<"models">>) = "get_available_models"
    /\ req' = [method |-> "GET", path |-> <<"models">>, features |-> <<>>]
    /\ resp' = get_available_models
    /\ trace' = NoTrace("get_available_models")
    /\ UNCHANGED <<disease, files, saved, ARTIFACT_CACHE, up, first, runs, cli>>

\* the router's own answer to a request that matches no route
NotRouted ==
    [resp |-> Response(404, "Not Found", 0, 0, 0, <<>>), trace |-> NoTrace("none"),
     cache |-> ARTIFACT_CACHE]

Answered(path, features, r) ==
    /\ up
    /\ req' = [method |-> "POST", path |-> path, features |-> features]
    /\ resp' = r.resp
    /\ trace' = r.trace
    /\ ARTIFACT_CACHE' = r.cache
    /\ UNCHANGED <<disease, files, saved, up, runs, cli>>

\* a POST that the router hands to predict_disease, or answers 404 itself
Serve(path, features) ==
    Answered(path, features,
             IF Route("POST", path) = "predict_disease"
             THEN predict_disease(path[Len(path)], features, ARTIFACT_CACHE, files)
             ELSE NotRouted)

\* POST /predict/disease/{model_type}
PostPredictDisease(model_type, features) ==
    /\ Idle
    /\ Serve(<<"predict", "disease", model_type>>, features)
    /\ UNCHANGED first

\* POST /predict/{model_name}, the URL the integration test posts to
\* (test_integration.py 106)
PostPredictTestUrl(model_name) ==
    /\ Idle
    /\ Serve(<<"predict", model_name>>, TestBody[model_name])
    /\ UNCHANGED first

\* the client sends the request it has just sent once more
PostAgain ==
    /\ ~Idle
    /\ req.method = "POST"
    /\ first = NoFirst
    /\ Serve(req.path, req.features)
    /\ first' = [resp |-> resp, trace |-> trace]

Next ==
    \/ \E g \in 1..MaxGen : RunScript(g)
    \/ Startup
    \/ Shutdown
    \/ Finish
    \/ GetModels
    \/ \E b \in Bodies(disease) : PostPredictDisease(disease, b)
    \/ \E k \in UnknownKeys : PostPredictDisease(k, TestBody[disease])
    \/ PostPredictTestUrl(disease)
    \/ PostAgain

Spec == Init /\ [][Next]_vars

(***************************************************************************)
(* The service started on a deployed folder: the disease's folder holds    *)
(* the artifacts its script dumped, except that one of the files is not    *)
(* there (for a kind the disease does not configure, nothing is missing).  *)
(* The raw CSVs are not deployed.                                          *)
(***************************************************************************)
\* the folder of disease d with the file of kind `gone` left out
Deployed(d, gone) ==
    [p \in AllPaths |->
       IF /\ MODEL_CONFIGS[d][gone \o "_file"] # ""
          /\ p = Join(MODEL_CONFIGS[d].path, MODEL_CONFIGS[d][gone \o "_file"])
       THEN NoFile
       ELSE WriteArtifacts([q \in AllPaths |-> NoFile], d, ScriptFit(d, 1))[p]]

InitStore ==
    /\ disease \in DOMAIN MODEL_CONFIGS
    /\ \E gone \in Range(ArtifactKinds) : files = Deployed(disease, gone)
    /\ saved = EmptyArtifacts
    /\ ARTIFACT_CACHE = EmptyCache
    /\ up = FALSE
    /\ req = NoRequest
    /\ resp = NoResponse
    /\ trace = NoTrace("none")
    /\ first = NoFirst
    /\ runs = 0
    /\ script = "none"
    /\ pc = "NotStarted"
    /\ mem = EmptyArtifacts
    /\ data = <<>>
    /\ ledger = <<>>
    /\ entered = NoAnswers
    /\ row = <<>>
    /\ report = NoReport
    /\ raised = ""
    /\ weight = DefaultWeight
    /\ sess = [s \in Sessions |-> NoSession]
    /\ order = <<>>

SpecStore == InitStore /\ [][Next]_vars

(***************************************************************************)
(* An interactive session of one of the scripts in a terminal.  The        *)
(* service is not running; the script's folder holds no artifact or the    *)
(* artifacts of an earlier run.                                            *)
(***************************************************************************)
InitCLI ==
    /\ script \in CLIScripts \cup OneShotScripts
    /\ disease = script
    /\ \E name \in DOMAIN Datasets : data = Datasets[name]
    /\ \E earlier \in BOOLEAN :
         files = IF earlier
                 THEN WriteArtifacts([p \in AllPaths |-> NoFile], script, ScriptFit(script, 1))
                 ELSE [p \in AllPaths |-> NoFile]
    /\ saved = EmptyArtifacts
    /\ ARTIFACT_CACHE = EmptyCache
    /\ up = FALSE
    /\ req = NoRequest
    /\ resp = NoResponse
    /\ trace = NoTrace("none")
    /\ first = NoFirst
    /\ runs = 0
    /\ pc = "NotStarted"
    /\ mem = EmptyArtifacts
    /\ ledger = <<>>
    /\ entered = NoAnswers
    /\ row = <<>>
    /\ report = NoReport
    /\ raised = ""
    /\ weight = DefaultWeight
    /\ sess = [s \in Sessions |-> NoSession]
    /\ order = <<>>

\* the module-level code has run: objs are the objects loaded or fitted; the
\* stratified split of df (Arthritis_ML/data/model.py 151, COPD_ML 134,
\* Liver_ML 141) comes after the imputer, the encoders and the scaler are
\* dumped and before a model is fitted
Started(objs, found) ==
    IF SplitFails(data)
    THEN /\ pc' = "Crashed"
         /\ raised' = SplitMsg
         /\ mem' = IF script \in OneShotScripts
                   THEN [objs EXCEPT !.model = NoFile, !.scaler = NoFile]
                   ELSE [objs EXCEPT !.model = found.model]
         /\ files' = IF script \in OneShotScripts THEN files
                     ELSE WriteArtifacts(files, script, [objs EXCEPT !.model = found.model])
    ELSE /\ pc' = "AwaitingInput"
         /\ raised' = ""
         /\ mem' = objs
         /\ files' = WriteArtifacts(files, script, objs)

\* python model.py: the script's module level up to run_loop(); the three
\* scripts that ask once split before they fit the scaler and dump only
\* after the model is fitted (e.g. CKD model.py 55-100)
Start ==
    /\ pc = "NotStarted"
    /\ runs < MaxRuns
    /\ runs' = runs + 1
    /\ Started(ScriptObjects(script, FitOn(data), ScriptFiles(files, script)),
               ScriptFiles(files, script))
    /\ \E w \in InitialWeights(script, data) : weight' = w
    /\ UNCHANGED <<service, script, data, ledger, entered, row, report, pair>>

\* the prediction is printed and the label prompt follows, or the exception
\* ends the session
Reported(p) ==
    IF p.err # ""
    THEN /\ pc' = "Crashed" /\ raised' = p.err /\ row' = p.pre /\ report' = NoReport
    ELSE IF ~ModelAccepts(mem.model, p.vec)
    THEN /\ pc' = "Crashed" /\ raised' = "ValueError: feature shape mismatch"
         /\ row' = p.pre /\ report' = NoReport
    ELSE /\ pc' = "AwaitingLabelConfirmation"
         /\ raised' = ""
         /\ row' = p.pre
         /\ report' = [pred_prob |-> predict_proba(mem.model, p.vec),
                       prediction |-> predict(mem.model, p.vec)]

\* one round of prompts up to the printed prediction (Arthritis_ML/data/
\* model.py 172-203, COPD_ML 171-223, Liver_ML 182-229); 'exit' at the first
\* prompt leaves the loop
EnterDetails(age, text) ==
    /\ pc = "AwaitingInput"
    /\ script \in CLIScripts
    /\ entered' = [age |-> age, text |-> text, label |-> ""]
    /\ IF age = "exit"
       THEN /\ pc' = "Terminal" /\ UNCHANGED <<row, report, raised>>
       ELSE Reported(UserPrediction(script, mem, age, text))
    /\ UNCHANGED <<files, runs, service, script, mem, data, ledger, weight, pair>>

\* joblib.dump(model, MODEL_FILE)
Dumped_Once(fs, d, model) ==
    IF Present(fs[Join(SCRIPTS[d].dir, SCRIPTS[d].model_file)]) THEN fs
    ELSE [fs EXCEPT ![Join(SCRIPTS[d].dir, SCRIPTS[d].model_file)] = model]

Dumped(fs, d, model) ==
    [fs EXCEPT ![Join(SCRIPTS[d].dir, SCRIPTS[d].model_file)] = model]

\* the end of the retraining: the objects in the process, the model file,
\* and the loop back at its first prompt; predict_from_user returns and the
\* script ends
Retrained(r) ==
    /\ mem' = r.mem
    /\ files' = IF Present(r.dumped) THEN Dumped(files, script, r.dumped) ELSE files
    /\ raised' = r.err
    /\ pc' = IF r.err # "" THEN "Crashed"
             ELSE IF script \in OneShotScripts THEN "Terminal"
             ELSE "AwaitingInput"

\* the retraining reads the file before the row is appended to it
Feedback_StaleRead(actual_val, disk_ok) ==
    /\ Len(read_csv(ledger)) < MaxFeedback
    /\ ledger' = Saved(ledger, row, script, actual_val)
    /\ Retrained(Retrain(script, mem, DropDuplicates(data \o read_csv(ledger), <<>>),
                         disk_ok))

\* the feedback row is appended to the CSV, the CSV is read back and the
\* model is retrained on df and the feedback rows (Arthritis_ML/data/
\* model.py 214-236, COPD_ML 232-256, Liver_ML 236-258)
Feedback(actual_val, disk_ok) ==
    /\ Len(read_csv(ledger)) < MaxFeedback
    /\ ledger' = Saved(ledger, row, script, actual_val)
    /\ Retrained(Retrain(script, mem,
                         DropDuplicates(data \o read_csv(Saved(ledger, row, script,
                                                               actual_val)), <<>>),
                         disk_ok))

\* the answer to the label prompt: Yes or No retrains; anything else is
\* asked again by the arthritis script (206-212) and skips the retraining
\* in the other two, where 'exit' ends the COPD session (227-230) and is
\* one more skip for the liver script (233-235)
ConfirmLabel(actual) ==
    /\ pc = "AwaitingLabelConfirmation"
    /\ entered' = [entered EXCEPT !.label = actual]
    /\ IF actual \in {"Yes", "No"}
       THEN \E disk_ok \in BOOLEAN : Feedback(IF actual = "Yes" THEN 1 ELSE 0, disk_ok)
       ELSE /\ pc' = IF script = "arthritis" THEN "AwaitingLabelConfirmation"
                     ELSE IF script = "copd" /\ actual = "Exit" THEN "Terminal"
                     ELSE "AwaitingInput"
            /\ UNCHANGED <<files, mem, ledger, raised>>
    /\ UNCHANGED <<runs, service, script, data, row, report, weight, pair>>

\* the answers predict_from_user takes: a prompt for a number is repeated
\* until a number is typed, the yes/no prompt of the CKD script and the
\* Male/Female prompt of the asthma script until one of their options is
\* (CKD model.py 105-120, Asthma ML/model.py 101-113)
TextAccepted(d, text) == d = "hypertension" \/ text = ValidText(d)

Accepted(d, age, text) ==
    /\ age \in DOMAIN AgeValue
    /\ TextAccepted(d, text)

\* the row is stored with the predicted class as its label and the model is
\* retrained (CKD model.py 151-168)
Stored(p, disk_ok) ==
    /\ row' = p.pre
    /\ report' = [pred_prob |-> predict_proba(mem.model, p.vec),
                  prediction |-> predict(mem.model, p.vec)]
    /\ ledger' = Saved(ledger, p.pre, script, predict(mem.model, p.vec))
    /\ Retrained(OneShotRetrain(script, mem,
                                data \o read_csv(Saved(ledger, p.pre, script,
                                                       predict(mem.model, p.vec))),
                                disk_ok))

\* predict_from_user() of the CKD, asthma and hypertension scripts; text that
\* is not a number at the age prompt is answered "Please enter a valid
\* number." and the prompt is asked again (get_float_input, CKD model.py
\* 105-110)
PredictFromUser(age, text, disk_ok) ==
    /\ pc = "AwaitingInput"
    /\ script \in OneShotScripts
    /\ TextAccepted(script, text)
    /\ entered' = [age |-> age, text |-> text, label |-> ""]
    /\ IF Accepted(script, age, text)
       THEN /\ Len(read_csv(ledger)) < MaxFeedback
            /\ Stored(UserPrediction(script, mem, age, text), disk_ok)
       ELSE UNCHANGED <<files, pc, mem, ledger, row, report, raised>>
    /\ UNCHANGED <<runs, service, script, data, weight, pair>>

\* the terminal is back at the shell: the process and its objects are gone
Ended ==
    /\ pc \in {"Terminal", "Crashed"}
    /\ pc' = "NotStarted"
    /\ mem' = EmptyArtifacts
    /\ entered' = NoAnswers
    /\ row' = <<>>
    /\ report' = NoReport
    /\ raised' = ""
    /\ weight' = DefaultWeight
    /\ UNCHANGED <<files, runs, service, script, data, ledger, pair>>

NextCLI ==
    \/ Start
    \/ \E age \in {"exit", "45", "abc"} : \E text \in Answers(script) :
          EnterDetails(age, text)
    \/ \E actual \in {"Yes", "No", "Later", "Exit"} : ConfirmLabel(actual)
    \/ \E age \in {"45", "abc"} : \E text \in Answers(script) : \E disk_ok \in BOOLEAN :
          PredictFromUser(age, text, disk_ok)
    \/ Ended

SpecCLI == InitCLI /\ [][NextCLI]_vars


(***************************************************************************)
(* Two sessions of one script in two terminals, both started on the same   *)
(* df and the same artifacts, each with a prediction printed and a label   *)
(* confirmed.  The processes share the feedback CSV and the model file and *)
(* nothing else; their statements interleave from os.path.exists to        *)
(* joblib.dump (Arthritis_ML/data/model.py 216-236, COPD_ML 236-256,       *)
(* Liver_ML 240-258).                                                      *)
(***************************************************************************)
SessionAge == <<"45", "46">>

\* the objects both processes hold after their module-level code
PairObjects(d) == ScriptFit(d, FitOn(Datasets.plenty))

\* user_df of session s
PairRow(d, s) == UserPrediction(d, PairObjects(d), SessionAge[s], ValidText(d)).pre

InitPair ==
    /\ script \in CLIScripts
    /\ disease = script
    /\ data = Datasets.plenty
    /\ files = WriteArtifacts([p \in AllPaths |-> NoFile], script, PairObjects(script))
    /\ \E old \in BOOLEAN :
         ledger = IF old THEN Saved(<<>>, PairRow(script, 1), script, 0) ELSE <<>>
    /\ \E label \in [Sessions -> {0, 1}] :
         sess = [s \in Sessions |->
                   [pc |-> "Confirmed", exists |-> FALSE,
                    line |-> DataRow(RawValues(PairRow(script, s)).vec, label[s]),
                    snapshot |-> <<>>, model |-> NoFile]]
    /\ order = <<>>
    /\ saved = EmptyArtifacts
    /\ ARTIFACT_CACHE = EmptyCache
    /\ up = FALSE
    /\ req = NoRequest
    /\ resp = NoResponse
    /\ trace = NoTrace("none")
    /\ first = NoFirst
    /\ runs = 0
    /\ pc = "NotStarted"
    /\ mem = EmptyArtifacts
    /\ entered = NoAnswers
    /\ row = <<>>
    /\ report = NoReport
    /\ raised = ""
    /\ weight = DefaultWeight

\* if os.path.exists(FEEDBACK_FILE):
CheckExists(s) ==
    /\ sess[s].pc = "Confirmed"
    /\ sess' = [sess EXCEPT ![s].pc = "Checked", ![s].exists = (ledger # <<>>)]
    /\ UNCHANGED <<files, runs, service, script, data, ledger, alone, order>>

\* user_df.to_csv(...) in the branch the check chose
WriteRow(s) ==
    /\ sess[s].pc = "Checked"
    /\ ledger' = to_csv(ledger, sess[s].exists, PairRow(script, s), script, sess[s].line.y)
    /\ sess' = [sess EXCEPT ![s].pc = "Written"]
    /\ UNCHANGED <<files, runs, service, script, data, alone, order>>

\* the file is read and the model is re-fitted, or the split raises
Fitted(s, r) ==
    sess' = [sess EXCEPT ![s].pc = IF r.err = "" THEN "Fitted" ELSE "Crashed",
                         ![s].snapshot = read_csv(ledger),
                         ![s].model = r.dumped]

\* feedback_df = pd.read_csv(FEEDBACK_FILE) ... model.fit(...)
ReadAndFit(s) ==
    /\ sess[s].pc = "Written"
    /\ Fitted(s, Retrain(script, PairObjects(script),
                         DropDuplicates(data \o read_csv(ledger), <<>>), TRUE))
    /\ UNCHANGED <<files, runs, service, script, data, ledger, alone, order>>

\* joblib.dump(model, MODEL_FILE)
Dump(s) ==
    /\ sess[s].pc = "Fitted"
    /\ files' = Dumped(files, script, sess[s].model)
    /\ order' = Append(order, s)
    /\ sess' = [sess EXCEPT ![s].pc = "Done"]
    /\ UNCHANGED <<runs, service, script, data, ledger, alone>>

NextPair ==
    \E s \in Sessions :
        \/ CheckExists(s)
        \/ WriteRow(s)
        \/ ReadAndFit(s)
        \/ Dump(s)

SpecPair == InitPair /\ [][NextPair]_vars

(***************************************************************************)
(* Requests as the properties see them.                                    *)
(***************************************************************************)
\* the step answers a POST that the router hands to predict_disease
PredictStep ==
    /\ req'.method = "POST"
    /\ Route("POST", req'.path) = "predict_disease"
    /\ (resp' # resp \/ first' # first \/ req' # req)

\* the answered request is a prediction request for model_type
Predicted(model_type) ==
    /\ req.method = "POST"
    /\ Route("POST", req.path) = "predict_disease"
    /\ req.path[3] = model_type

(***************************************************************************)
(* C1: a prediction request whose disease key is not configured is         *)
(* answered 404, and nothing is loaded, trained or predicted for it: the   *)
(* cache and the files are as before.                                      *)
(***************************************************************************)
C1_UnknownKeyIs404 ==
    [][ (PredictStep /\ ~Configured(req'.path[3])) =>
          /\ resp'.status = 404
          /\ ~trace'.loaded /\ ~trace'.read /\ ~trace'.trained /\ ~trace'.predicted
          /\ ARTIFACT_CACHE' = ARTIFACT_CACHE
          /\ files' = files ]_vars

C1_Witness ==
    /\ \E k \in UnknownKeys : Predicted(k)
    /\ resp.status = 404
    /\ resp.detail = "Model cancer not found"
    /\ trace.handler = "predict_disease"

(***************************************************************************)
(* C2: for a configured key, an exception raised while loading,            *)
(* preprocessing or predicting is answered 500 with the exception's        *)
(* message as detail; the answer is not a 200 and the service stays up.    *)
(***************************************************************************)
C2_FailureIs500 ==
    [][ (PredictStep /\ Configured(req'.path[3]) /\ trace'.raised # "") =>
          /\ resp'.status = 500
          /\ resp'.detail = trace'.raised
          /\ up' ]_vars

\* a preprocessing exception, with the artifacts loaded
C2_Witness ==
    /\ Predicted(disease)
    /\ trace.artifacts # EmptyArtifacts
    /\ trace.raised # ""
    /\ ~trace.predicted
    /\ resp.status = 500

(***************************************************************************)
(* C3: GET /models answers the eight configured keys, each once, whatever  *)
(* is loaded, missing or fallback-trained.                                 *)
(***************************************************************************)
C3_ModelsAreTheConfiguredKeys ==
    trace.handler = "get_available_models" =>
        /\ resp.status = 200
        /\ Len(resp.models) = 8
        /\ Range(resp.models) = {"heart", "diabetes", "hypertension", "ckd", "asthma",
                                 "arthritis", "copd", "liver"}

\* asked while one model is loaded from files, one is fallback-trained and
\* one is not available
C3_Witness ==
    /\ trace.handler = "get_available_models"
    /\ resp.models = ModelKeys
    /\ saved # EmptyArtifacts
    /\ \E d \in DOMAIN MODEL_CONFIGS : ARTIFACT_CACHE[d] = saved
    /\ \E d \in DOMAIN MODEL_CONFIGS :
         ARTIFACT_CACHE[d] # EmptyArtifacts /\ ARTIFACT_CACHE[d] # saved
    /\ \E d \in DOMAIN MODEL_CONFIGS : ARTIFACT_CACHE[d] = EmptyArtifacts

(***************************************************************************)
(* C4: a 200 answer has prediction in {0, 1}, and prediction is 1 exactly  *)
(* when risk_probability is at least one half.                             *)
(***************************************************************************)
C4_LabelMatchesProbability ==
    (resp.status = 200 /\ trace.predicted) =>
        /\ resp.prediction \in {0, 1}
        /\ (resp.prediction = 1) <=> (resp.risk_probability >= Half)

(***************************************************************************)
(* C5: POST /predict/{diseaseName} with the integration test's body is     *)
(* answered 200 for each disease whose artifacts are loadable.             *)
(***************************************************************************)
C5_TestUrlAnswers200 ==
    ( /\ req.method = "POST"
      /\ \E d \in DOMAIN MODEL_CONFIGS :
            /\ req.path = <<"predict", d>>
            /\ req.features = TestBody[d]
            /\ ARTIFACT_CACHE[d] # EmptyArtifacts ) =>
        resp.status = 200

(***************************************************************************)
(* C7: when the request holds null or zero in a zero-sentinel column, the  *)
(* column's value before scaling is the imputer's fitted median.           *)
(***************************************************************************)
\* the median the loaded imputer holds for column c
Median(imp, c) == imp.stats[CHOOSE j \in 1..Len(imp.cols) : imp.cols[j] = c]

SentinelIn(features, d, c) ==
    /\ Has(features, RequestKey(d, c))
    /\ Get(features, RequestKey(d, c)) \in {Num(0), Null}

C7_SentinelBecomesMedian ==
    (Predicted(disease) /\ trace.predicted /\ Present(trace.artifacts.num_imputer)) =>
        \A c \in Range(MODEL_CONFIGS[disease].zero_cols) :
            (SentinelIn(req.features, disease, c) /\ InSeq(c, trace.artifacts.num_imputer.cols))
                => Get(trace.pre, c) = Num(Median(trace.artifacts.num_imputer, c))

(***************************************************************************)
(* C8: the same request served twice against the same fitted objects gives *)
(* the same preprocessed frame, the same vector and the same answer, and   *)
(* the second application sees the fitted objects the first one saw.       *)
(***************************************************************************)
C8_PreprocessingRepeats ==
    (first # NoFirst /\ Predicted(disease) /\ first.trace.artifacts # EmptyArtifacts) =>
        /\ trace.artifacts = first.trace.artifacts
        /\ trace.pre = first.trace.pre
        /\ trace.vec = first.trace.vec
        /\ resp = first.resp

\* a row that went through imputer, encoder and scaler, twice
C8_Witness ==
    /\ first # NoFirst
    /\ Predicted(disease)
    /\ first.trace.predicted /\ trace.predicted
    /\ first.trace.read /\ ~trace.read
    /\ Present(trace.artifacts.scaler)
    /\ trace.vec # <<>>

UnseenAnswer ==
    /\ script # "ckd"
    /\ entered.age \in DOMAIN AgeValue
    /\ Present(mem.encoders)
    /\ \A c \in 1..Len(EncoderClasses(mem.encoders, PromptCol(script))) :
           EncoderClasses(mem.encoders, PromptCol(script))[c] # Str(entered.text)

C6_UnseenLabelIsZero ==
    [][ (pc = "AwaitingInput" /\ UnseenAnswer')
            => /\ raised' \in {"", SplitMsg, DumpMsg}
               /\ Has(row', PromptCol(script))
               /\ Get(row', PromptCol(script)) = Num(0) ]_vars

AtLabelPrompt == pc = "AwaitingLabelConfirmation"

\* the step on which the user confirms a Yes/No label
Confirms == AtLabelPrompt /\ entered'.label \in {"Yes", "No"}

\* the step on which a retraining ends in an exception
RetrainFails ==
    /\ pc \in {"AwaitingLabelConfirmation", "AwaitingInput"}
    /\ pc' = "Crashed"
    /\ raised' \in {SplitMsg, DumpMsg}

\* the step on which a row is stored and the retraining that follows succeeds
RetrainSucceeds == ledger' # ledger /\ raised' = ""

LastLine(lines) == lines[Len(lines)]

(***************************************************************************)
(* C11: a retraining that fails at any step leaves the model and the       *)
(* scaler objects of the session exactly as they were before the attempt.  *)
(***************************************************************************)
C11_FailedRetrainKeepsObjects ==
    [][ RetrainFails => mem' = mem ]_vars

(***************************************************************************)
(* C12: a confirmed label appends exactly one row to the feedback file and *)
(* runs one retraining over df and the file, the new row included, which   *)
(* ends by replacing the persisted model.  As stated, for every confirmed  *)
(* label.                                                                  *)
(***************************************************************************)
\* the model one retraining cycle fits on df and the rows of the file
CycleOver(d, lines) ==
    FitModel(Len(SCRIPTS[d].features), FitOn(DropDuplicates(data \o read_csv(lines), <<>>)))

OneRowAppended ==
    /\ ledger' # <<>>
    /\ read_csv(ledger') = Append(read_csv(ledger), LastLine(ledger'))
    /\ LastLine(ledger').x = RawValues(row).vec

C13_ExitTokenEndsSession ==
    [][ (/\ pc = "AwaitingInput"
         /\ script \in CLIScripts
         /\ entered'.age = "exit" \/ entered'.text = "Exit")
          => /\ pc' = "Terminal"
             /\ row' = row /\ report' = report
             /\ ledger' = ledger /\ mem' = mem /\ files' = files ]_vars

(***************************************************************************)
(* C14: an answer to the label prompt that is neither Yes nor No skips the *)
(* retraining: the session is back at its first prompt, nothing is         *)
(* appended and the objects and the files are unchanged.                   *)
(***************************************************************************)
C14_OtherAnswerSkips ==
    [][ (AtLabelPrompt /\ entered'.label = "Later")
          => /\ pc' = "AwaitingInput"
             /\ ledger' = ledger /\ mem' = mem /\ files' = files ]_vars

(***************************************************************************)
(* C15: a row is appended to the feedback file only on the step on which   *)
(* the user confirms a label, and the label of the appended row is the     *)
(* confirmed one.                                                          *)
(***************************************************************************)
C15_OnlyConfirmedLabelsAreStored ==
    [][ ledger' # ledger
          => /\ Confirms
             /\ LastLine(ledger').y = IF entered'.label = "Yes" THEN 1 ELSE 0 ]_vars

(***************************************************************************)
(* C16: the feedback file is one header line, the columns of the user row  *)
(* and the label column, followed by the appended rows in the order they   *)
(* were appended; an append adds one row and leaves the lines before it    *)
(* as they were.                                                           *)
(***************************************************************************)
C16_FeedbackFileIsAppendOnly ==
    [][ ledger' # ledger
          => /\ ledger' # <<>>
             /\ read_csv(ledger') = Append(read_csv(ledger), LastLine(ledger'))
             /\ ledger'[1] = DataRow(Keys(row'), TargetCol[script])
             /\ ledger # <<>> => ledger'[1] = ledger[1]
             /\ \A i \in 2..Len(ledger') :
                    /\ ledger'[i].y \in {0, 1}
                    /\ Len(ledger'[i].x) = Len(ledger'[1].x) ]_vars

\* two rows appended, the second one by a later run of the script
C16_Witness ==
    /\ Len(ledger) = 3
    /\ runs = 2
    /\ pc = "AwaitingInput"
    /\ ledger[1].y = TargetCol[script]
    /\ ledger[2] # ledger[3]

(***************************************************************************)
(* C19: after a retraining that succeeds, the scaler file and the model    *)
(* file of the script come from the same fit.                              *)
(***************************************************************************)
C19_ScalerFileMatchesModelFile ==
    [][ RetrainSucceeds
          => ScriptFiles(files', script).scaler.gen = ScriptFiles(files', script).model.gen ]_vars

(***************************************************************************)
(* C20: the classifier re-fitted by a retraining carries the positive-     *)
(* class weight negative-count / positive-count of the rows it is          *)
(* re-fitted on.                                                           *)
(***************************************************************************)
\* the class counts of the rows the script re-fits its classifier on
RetrainCounts(d, rows) ==
    IF d \in {"ckd", "asthma"}
    THEN {[neg |-> ClassCount(rows, 0), pos |-> ClassCount(rows, 1)]}
    ELSE IF d = "hypertension" THEN TrainCounts(rows)
    ELSE TrainCounts(DropDuplicates(rows, <<>>))

C20_RetrainUsesFreshWeight ==
    [][ RetrainSucceeds
          => \E c \in RetrainCounts(script, data \o read_csv(ledger')) :
                weight'.neg * (IF c.pos > 1 THEN c.pos ELSE 1) = weight'.pos * c.neg ]_vars

(***************************************************************************)
(* C17: with two sessions of one script appending side by side, every row  *)
(* a session has written is still a row of the feedback file once both     *)
(* have written, and the file has one header line.                         *)
(***************************************************************************)
BothPast(stages) == \A s \in Sessions : sess[s].pc \in stages

C17_BothRowsKept ==
    BothPast({"Written", "Fitted", "Crashed", "Done"})
        => /\ \A s \in Sessions : InSeq(sess[s].line, read_csv(ledger))
           /\ \A i \in 2..Len(ledger) : ledger[i].y \in {0, 1}

(***************************************************************************)
(* C18: the model file holds what the last completed joblib.dump wrote,    *)
(* whichever session it came from; that model may have been fitted on a    *)
(* reading of the feedback file without the other session's row.           *)
(***************************************************************************)
C18_LastSaveWins ==
    order # <<>> => ScriptFiles(files, script).model = sess[order[Len(order)]].model

\* both sessions are done and the persisted model is the one fitted before
\* the other session's row was in the file
C18_Witness ==
    /\ Len(order) = 2
    /\ ScriptFiles(files, script).model = sess[order[2]].model
    /\ ~InSeq(sess[order[1]].line, sess[order[2]].snapshot)
    /\ InSeq(sess[order[1]].line, read_csv(ledger))
    /\ sess[order[1]].model # sess[order[2]].model

(***************************************************************************)
(* C21: a load from the folder gives no bundle when one of the model,      *)
(* scaler, encoders or numeric imputer files configured for the disease is *)
(* not there; the bundle a load gives holds every configured component.    *)
(***************************************************************************)
StoreKinds == {"model", "scaler", "encoders", "num_imputer"}

\* the kinds configured for d whose file is not in the folder
AbsentKinds(fs, d) ==
    {k \in StoreKinds :
        /\ MODEL_CONFIGS[d][k \o "_file"] # ""
        /\ ~Present(FileAt(fs, MODEL_CONFIGS[d].path, MODEL_CONFIGS[d][k \o "_file"]))}

\* the bundle lacks a component the disease configures
Partial(artifacts, d) ==
    /\ artifacts # EmptyArtifacts
    /\ \E k \in StoreKinds : MODEL_CONFIGS[d][k \o "_file"] # "" /\ ~Present(artifacts[k])

C21_LoadNeedsEveryFile ==
    [][ /\ (~up /\ up') =>
            \A d \in DOMAIN MODEL_CONFIGS :
                /\ AbsentKinds(files, d) # {} => ARTIFACT_CACHE'[d] = EmptyArtifacts
                /\ ~Partial(ARTIFACT_CACHE'[d], d)
        /\ (PredictStep /\ Configured(req'.path[3]) /\ trace'.read) =>
                /\ AbsentKinds(files, req'.path[3]) # {} => trace'.artifacts = EmptyArtifacts
                /\ ~Partial(trace'.artifacts, req'.path[3]) ]_vars

(***************************************************************************)
(* C22: a prediction request for a configured disease whose model file is  *)
(* absent is answered with a prediction (from a fallback-trained or mocked *)
(* model), never with an error response.                                   *)
(***************************************************************************)
\* no model file in the folder the configuration names for d
ModelFileAbsent(fs, d) ==
    ~Present(FileAt(fs, MODEL_CONFIGS[d].path, MODEL_CONFIGS[d].model_file))

C22_MissingModelStillPredicts ==
    [][ ( /\ PredictStep
          /\ Configured(req'.path[3])
          /\ req'.features = TestBody[disease]
          /\ ModelFileAbsent(files, req'.path[3]) ) =>
            /\ resp'.status = 200
            /\ trace'.predicted ]_vars

(***************************************************************************)
(* C23: while the service process runs, a cache entry that holds a bundle  *)
(* is never replaced; a request for a disease with a cached bundle is      *)
(* served from it without reading files or training, whatever a script has *)
(* dumped since; a load that gives no bundle caches nothing, and the next  *)
(* request reads the files again.                                          *)
(***************************************************************************)
C23_CacheIsWriteOnce ==
    [][ /\ (up /\ up') =>
            \A d \in DOMAIN MODEL_CONFIGS :
                ARTIFACT_CACHE[d] # EmptyArtifacts => ARTIFACT_CACHE'[d] = ARTIFACT_CACHE[d]
        /\ (PredictStep /\ Configured(req'.path[3])) =>
            IF ARTIFACT_CACHE[req'.path[3]] # EmptyArtifacts
            THEN /\ ~trace'.read /\ ~trace'.trained
                 /\ trace'.artifacts = ARTIFACT_CACHE[req'.path[3]]
            ELSE /\ trace'.read
                 /\ ARTIFACT_CACHE'[req'.path[3]] = trace'.artifacts ]_vars

\* a request served from the cache after the script has dumped another model
C23_Witness ==
    /\ up
    /\ Predicted(disease)
    /\ trace.predicted /\ ~trace.read /\ ~trace.trained
    /\ trace.artifacts = ARTIFACT_CACHE[disease]
    /\ ~ModelFileAbsent(files, disease)
    /\ FileAt(files, MODEL_CONFIGS[disease].path, MODEL_CONFIGS[disease].model_file)
          # trace.artifacts.model

(***************************************************************************)
(* C24: a request whose keys come in another order, or which carries a key *)
(* the model does not ask for, gets the answer the request in training     *)
(* order gets, and the classifier is handed the same vector.               *)
(***************************************************************************)
\* what the service would make of the integration test's body in this state
Canonical(d, cache, fs) == make_prediction(d, TestBody[d], cache, fs)

C24_KeyOrderDoesNotMatter ==
    [][ ( /\ PredictStep
          /\ req'.path[3] = disease
          /\ req'.features \in {Swapped(TestBody[disease]),
                                WithExtra(disease, TestBody[disease])} ) =>
            /\ resp' = Answer(Canonical(disease, ARTIFACT_CACHE, files)).resp
            /\ trace'.vec = Canonical(disease, ARTIFACT_CACHE, files).vec ]_vars

(***************************************************************************)
(* C25: a prediction request whose body leaves out a feature the disease's *)
(* preprocessing and model need is answered with an error, in the heart,   *)
(* the diabetes and the generic branch; no prediction is made for it.      *)
(***************************************************************************)
\* the columns the body has to carry: the configured features, except the
\* arthritis interaction columns, which the service computes
RequiredCols(d) ==
    IF d = "arthritis"
    THEN Range(MODEL_CONFIGS[d].features)
            \ {"Pain_Stiffness", "Pain_Swelling", "Stiffness_Swelling"}
    ELSE Range(MODEL_CONFIGS[d].features)

MissingFeature(features, d) ==
    \E c \in RequiredCols(d) : ~Has(features, c) /\ ~Has(features, RequestKey(d, c))

C25_MissingFeatureIsAnError ==
    [][ ( /\ PredictStep
          /\ req'.path[3] = disease
          /\ MissingFeature(req'.features, disease) ) =>
            /\ resp'.status = 500
            /\ ~trace'.predicted ]_vars

\* the bundle is loaded and the request fails for the missing key alone
C25_Witness ==
    /\ Predicted(disease)
    /\ MissingFeature(req.features, disease)
    /\ trace.artifacts # EmptyArtifacts
    /\ Present(trace.artifacts.scaler)
    /\ resp.status = 500
    /\ ~trace.predicted
    /\ make_prediction(disease, TestBody[disease], ARTIFACT_CACHE, files).predicted

(***************************************************************************)
(* C26: on the generic path a label that is one of the classes its         *)
(* column's encoder was fitted on reaches the scaler as that class's own   *)
(* code: the position of the label among the fitted classes.               *)
(***************************************************************************)
\* the body carries, in encoder column c, a string the encoder was fitted on
KnownLabel(features, enc, c) ==
    /\ Has(features, c)
    /\ InSeq(c, enc.cols)
    /\ IsStr(Get(features, c))
    /\ \E i \in 1..Len(EncoderClasses(enc, c)) : EncoderClasses(enc, c)[i] = Get(features, c)

\* the code the fitted encoder has for the label
OwnCode(features, enc, c) ==
    Num((CHOOSE i \in 1..Len(EncoderClasses(enc, c)) :
            EncoderClasses(enc, c)[i] = Get(features, c)) - 1)

C26_KnownLabelKeepsItsCode ==
    [][ ( /\ PredictStep
          /\ req'.path[3] = disease
          /\ disease \notin {"heart", "diabetes"}
          /\ trace'.predicted
          /\ Present(trace'.artifacts.encoders) ) =>
            \A c \in Range(MODEL_CONFIGS[disease].categorical_cols) :
                KnownLabel(req'.features, trace'.artifacts.encoders, c) =>
                    Get(trace'.pre, c) = OwnCode(req'.features, trace'.artifacts.encoders, c)
      ]_vars

(***************************************************************************)
(* C27: in a script, the code a label of the fitted vocabulary gets at     *)
(* prediction time, which is also the code written to the feedback CSV, is *)
(* the code the script's fitted encoder gave that label in the training    *)
(* data.                                                                   *)
(***************************************************************************)
\* the answer to the varied categorical prompt is a class of its encoder
VocabularyAnswer ==
    /\ entered.age \in DOMAIN AgeValue
    /\ Present(mem.encoders)
    /\ InSeq(PromptCol(script), mem.encoders.cols)
    /\ Seen(EncoderClasses(mem.encoders, PromptCol(script)), Str(entered.text))

C27_PromptCodeIsFittedCode ==
    [][ (pc = "AwaitingInput" /\ VocabularyAnswer' /\ raised' = "") =>
            /\ Has(row', PromptCol(script))
            /\ Get(row', PromptCol(script))
                 = EncoderTransform(EncoderClasses(mem'.encoders, PromptCol(script)),
                                    Str(entered'.text)).v ]_vars

(***************************************************************************)
(* C28: text that is not a number, typed at a numeric prompt, has the      *)
(* prompt asked again: the session stays at its prompts, no exception ends *)
(* it, and no prediction is made from the entry, in every script.          *)
(***************************************************************************)
C28_MalformedNumberIsAskedAgain ==
    [][ (pc = "AwaitingInput" /\ entered'.age = "abc") =>
            /\ pc' = "AwaitingInput"
            /\ raised' = ""
            /\ row' = row /\ report' = report /\ ledger' = ledger ]_vars

(***************************************************************************)
(* C29: a round of prompts that is not ended by the exit token or by an    *)
(* exception leads from AwaitingInput to the label prompt; a retraining    *)
(* that raises nothing leads back to AwaitingInput; and the session        *)
(* reaches Terminal only in a step in which the exit token was typed.      *)
(***************************************************************************)
\* the exit token is among the answers of the step
ExitTyped == entered'.age = "exit" \/ entered'.text = "Exit" \/ entered'.label = "Exit"

C29_SessionFollowsStateMachine ==
    [][ /\ (pc = "AwaitingInput" /\ pc' \notin {"AwaitingInput", "Crashed"} /\ ~ExitTyped)
              => pc' = "AwaitingLabelConfirmation"
        /\ (Confirms /\ raised' = "") => pc' = "AwaitingInput"
        /\ (pc # "Terminal" /\ pc' = "Terminal") => ExitTyped ]_vars

(***************************************************************************)
(* C30: when an arthritis request reaches the model, the frame handed to   *)
(* the scaler has Pain_Stiffness, Pain_Swelling and Stiffness_Swelling     *)
(* equal to the pairwise products of its own Pain_Level, Stiffness and     *)
(* Swelling as they stand after imputation; the caller need not send the   *)
(* three columns, and values the caller does send for them are replaced.   *)
(***************************************************************************)
ProductsOfOwn(frame) ==
    /\ Get(frame, "Pain_Stiffness") = Product(frame, "Pain_Level", "Stiffness")
    /\ Get(frame, "Pain_Swelling") = Product(frame, "Pain_Level", "Swelling")
    /\ Get(frame, "Stiffness_Swelling") = Product(frame, "Stiffness", "Swelling")

====
